---- MODULE Spec2Model ----
(***************************************************************************)
(* Batch multi-model assessment pipeline of xlwings_lite_scripts/main_v2.py *)
(* (assess_questions -> assess_question_batch -> call_openrouter_api ->     *)
(* parse_llm_batch_response), as a state machine.                           *)
(*                                                                          *)
(* Python values are encoded as follows.  None and a missing dict key are   *)
(* the strings None and Absent where the field is a string, and the empty   *)
(* tuple <<>> where the field is a number (a present number n is <<n>>).    *)
(***************************************************************************)
EXTENDS Integers, Sequences, FiniteSets, TLC

VARIABLES
    config,             \* dict returned by load_config
    nrows,              \* len(df_all): number of data rows of T_QUESTIONS
    pc,                 \* position of assess_questions
    df_to_process,      \* selected items (their questionids, in table order)
    total_batches,
    i,                  \* batch loop index of assess_questions (0-based)
    slot,               \* position of the model_key loop of assess_question_batch
    batch_results,      \* assess_question_batch's batch_results
    all_batch_results,
    results_data,
    api_metrics_data,
    log,                \* network requests sent and sleeps taken, in order
    fatal,              \* message of the exception that ended the run, or None
    written,            \* what Step 7/8 wrote to the workbook
    manual_test_json    \* sheet MANUAL_TEST_JSON: whether it exists, and its cell A1

vars == <<config, nrows, pc, df_to_process, total_batches, i, slot, batch_results,
          all_batch_results, results_data, api_metrics_data, log, fatal, written,
          manual_test_json>>

----------------------------------------------------------------------------
(* Bounds of the model *)

MaxRows == 2            \* rows of T_QUESTIONS
MaxBatchSize == 2       \* configured BATCH_SIZE

----------------------------------------------------------------------------
(* Python values *)

None == "None"
Absent == "<absent>"

Truthy(s) == s # None /\ s # ""

Min(a, b) == IF a < b THEN a ELSE b

Max(a, b) == IF a > b THEN a ELSE b

(* str.startswith *)
StartsWith(s, p) == Len(s) >= Len(p) /\ SubSeq(s, 1, Len(p)) = p

(* `sub in s` for strings *)
Contains(s, sub) ==
    \E k \in 1..(Len(s) - Len(sub) + 1) : SubSeq(s, k, k + Len(sub) - 1) = sub

UpperChars == "ABCDEFGHIJKLMNOPQRSTUVWXYZ"

LowerChars == "abcdefghijklmnopqrstuvwxyz"

LowerChar(c) ==
    IF \E k \in 1..Len(UpperChars) : SubSeq(UpperChars, k, k) = c
    THEN LET k == CHOOSE k \in 1..Len(UpperChars) : SubSeq(UpperChars, k, k) = c
         IN  SubSeq(LowerChars, k, k)
    ELSE c

(* str.lower *)
RECURSIVE Lower(_)
Lower(s) ==
    IF Len(s) = 0 THEN "" ELSE LowerChar(SubSeq(s, 1, 1)) \o Lower(SubSeq(s, 2, Len(s)))

(* str.strip, for blanks *)
RECURSIVE Strip(_)
Strip(s) ==
    IF Len(s) > 0 /\ SubSeq(s, 1, 1) = " " THEN Strip(SubSeq(s, 2, Len(s)))
    ELSE IF Len(s) > 0 /\ SubSeq(s, Len(s), Len(s)) = " " THEN Strip(SubSeq(s, 1, Len(s) - 1))
    ELSE s

(* [v.strip() for v in s.split(',')] *)
RECURSIVE SplitStrip(_)
SplitStrip(s) ==
    IF \E k \in 1..Len(s) : SubSeq(s, k, k) = ","
    THEN LET k == CHOOSE k \in 1..Len(s) :
                    /\ SubSeq(s, k, k) = ","
                    /\ \A j \in 1..(k - 1) : SubSeq(s, j, j) # ","
         IN  <<Strip(SubSeq(s, 1, k - 1))>> \o SplitStrip(SubSeq(s, k + 1, Len(s)))
    ELSE <<Strip(s)>>

Range(f) == {f[x] : x \in DOMAIN f}

----------------------------------------------------------------------------
(* Model slots and the capability table *)

(* Variant: the loop visits model_2 before model_1 *)
SlotKeys_swapped == <<"model_2", "model_1", "model_3">>

(* for model_key in ['model_1', 'model_2', 'model_3'] *)
SlotKeys == <<"model_1", "model_2", "model_3">>

Slots == 1..Len(SlotKeys)

Tag(cfg, s) == cfg[SlotKeys[s] \o "_tag"]

(* Variant: the tag is not looked at, every slot is called *)
Enabled_any(cfg, s) == Tag(cfg, s) \in {0, 1}

(* config.get(f'{model_key}_tag') != 1: continue *)
Enabled(cfg, s) == Tag(cfg, s) = 1

EnabledSlots(cfg) == {s \in Slots : Enabled(cfg, s)}

(* get_short_model_name *)
RECURSIVE get_short_model_name(_)
get_short_model_name(full_model_string) ==
    IF Contains(full_model_string, "/")
    THEN LET k == CHOOSE k \in 1..Len(full_model_string) :
                    SubSeq(full_model_string, k, k) = "/"
         IN  get_short_model_name(SubSeq(full_model_string, k + 1, Len(full_model_string)))
    ELSE full_model_string

(* Python floats are modelled as exact rationals num/den in lowest terms  *)
(* with den > 0                                                            *)
RECURSIVE GCD(_, _)
GCD(a, b) == IF b = 0 THEN (IF a < 0 THEN -a ELSE a) ELSE GCD(b, a % (IF b < 0 THEN -b ELSE b))

Frac(n, d) == LET g == GCD(n, d) IN [num |-> n \div g, den |-> d \div g]

FracAdd(x, y) ==
    LET g == GCD(x.den, y.den)
    IN  Frac(x.num * (y.den \div g) + y.num * (x.den \div g), (x.den \div g) * y.den)

FracMul(x, y) ==
    LET g == GCD(x.num, y.den)
        h == GCD(y.num, x.den)
    IN  Frac((x.num \div g) * (y.num \div h), (x.den \div h) * (y.den \div g))

(* Rows of the T_COST table of the workbook: THINKING flag, THINKING_VALUES *)
(* and the INPUT and OUTPUT prices in dollars per million tokens           *)
T_COST ==
    [m \in {"anthropic/claude-3-5-haiku-20241022", "anthropic/claude-sonnet-4",
            "openai/gpt-4o-mini", "openai/gpt-5", "openai/gpt-5-mini",
            "google/gemini-2.0-flash-lite", "google/gemini-2.5-flash",
            "google/Gemini-2.5-Pro"} |->
        CASE m = "openai/gpt-5" ->
                [THINKING |-> 1, THINKING_VALUES |-> "minimal, low,medium,high",
                 INPUT |-> Frac(2, 1), OUTPUT |-> Frac(8, 1)]
          [] m = "openai/gpt-5-mini" ->
                [THINKING |-> 1, THINKING_VALUES |-> "",
                 INPUT |-> Frac(1, 4), OUTPUT |-> Frac(2, 1)]
          [] m = "google/gemini-2.5-flash" ->
                [THINKING |-> 1, THINKING_VALUES |-> "",
                 INPUT |-> Frac(3, 10), OUTPUT |-> Frac(5, 2)]
          [] m = "google/Gemini-2.5-Pro" ->
                [THINKING |-> 1, THINKING_VALUES |-> "",
                 INPUT |-> Frac(5, 4), OUTPUT |-> Frac(10, 1)]
          [] m = "anthropic/claude-sonnet-4" ->
                [THINKING |-> 1, THINKING_VALUES |-> "",
                 INPUT |-> Frac(3, 1), OUTPUT |-> Frac(15, 1)]
          [] OTHER ->
                [THINKING |-> 0, THINKING_VALUES |-> "",
                 INPUT |-> Frac(1, 2), OUTPUT |-> Frac(3, 2)]]

(* Variant: every model listed in T_COST counts as a thinking model *)
is_thinking_model_listed(model_name) == model_name \in DOMAIN T_COST

(* thinking_models_lookup.get(model_name) == 1 *)
is_thinking_model(model_name) ==
    model_name \in DOMAIN T_COST /\ T_COST[model_name].THINKING = 1

(* thinking_values_lookup.get(model_name), None as "" (both are falsy) *)
thinking_values(model_name) ==
    IF model_name \in DOMAIN T_COST THEN T_COST[model_name].THINKING_VALUES ELSE ""

----------------------------------------------------------------------------
(* Request Builder: the thinking parameters of call_openrouter_api *)

(* Variant: a positive budget is capped at the maximum but never raised to *)
(* the minimum                                                            *)
thinking_budget_no_floor(model_name, budget_val) ==
    LET budget == IF budget_val = <<>> THEN 0 ELSE budget_val[1]
        is_pro == Contains(Lower(model_name), "pro")
        max_val == IF is_pro THEN 32768 ELSE 24576
        clamped == IF budget > max_val THEN max_val ELSE budget
    IN  IF clamped # 0 THEN <<clamped>> ELSE <<>>

(* payload['thinking_budget'], <<>> when the key is not added *)
thinking_budget(model_name, budget_val) ==
    LET budget == IF budget_val = <<>> THEN 0 ELSE budget_val[1]
        is_pro == Contains(Lower(model_name), "pro")
        min_val == IF is_pro THEN 128 ELSE 512
        max_val == IF is_pro THEN 32768 ELSE 24576
        clamped == IF budget > 0
                   THEN IF budget < min_val THEN min_val
                        ELSE IF budget > max_val THEN max_val ELSE budget
                   ELSE budget
    IN  IF clamped # 0 THEN <<clamped>> ELSE <<>>

(* The ValueError raised while validating reasoning_effort, or None *)
effort_error(model_name, user_effort) ==
    IF Truthy(user_effort) /\ Truthy(Strip(user_effort))
    THEN IF ~Truthy(Strip(thinking_values(model_name)))
         THEN "Model does not support the 'reasoning_effort' parameter"
         ELSE IF user_effort \in Range(SplitStrip(thinking_values(model_name)))
              THEN None
              ELSE "Invalid reasoning_effort"
    ELSE None

(* Variant: a blank value sends the effort "medium" *)
reasoning_effort_default(model_name, user_effort) ==
    IF Truthy(user_effort) /\ Truthy(Strip(user_effort))
    THEN IF effort_error(model_name, user_effort) = None THEN user_effort ELSE ""
    ELSE "medium"

(* payload['reasoning_effort'], "" when the key is not added *)
reasoning_effort(model_name, user_effort) ==
    IF Truthy(user_effort) /\ Truthy(Strip(user_effort))
       /\ effort_error(model_name, user_effort) = None
    THEN user_effort
    ELSE ""

(* Payload built by call_openrouter_api before the request is posted:      *)
(* error is the exception raised instead of posting, or None.               *)
build_payload(model_name, cfg) ==
    IF ~is_thinking_model(model_name)
    THEN [model |-> model_name, thinking_budget |-> <<>>, reasoning_effort |-> "",
          error |-> None]
    ELSE IF StartsWith(model_name, "google/")
    THEN [model |-> model_name,
          thinking_budget |-> thinking_budget(model_name, cfg.thinking_budget_gemini),
          reasoning_effort |-> "", error |-> None]
    ELSE IF StartsWith(model_name, "openai/")
    THEN [model |-> model_name, thinking_budget |-> <<>>,
          reasoning_effort |-> reasoning_effort(model_name, cfg.reasoning_effort_openai),
          error |-> effort_error(model_name, cfg.reasoning_effort_openai)]
    ELSE [model |-> model_name, thinking_budget |-> <<>>, reasoning_effort |-> "",
          error |-> None]

----------------------------------------------------------------------------
(* Model Gateway: what requests.post can produce *)

(* One outcome of requests.post.  kind: timeout | exception | http | empty |  *)
(* nonjson | json.  For kind json: top is the type of the decoded body (dict, *)
(* a falsy value such as {} or null, or another non-dict value), usage the    *)
(* 'usage' entry (dict | missing | null), content what                        *)
(* response["choices"][0]["message"]["content"] evaluates to (missing: the    *)
(* lookup raises KeyError/IndexError/TypeError; null: it is None; notjson,    *)
(* notarray, badelem, array: it is a string whose payload is not JSON, JSON   *)
(* that is no list, a list with a non-iterable element, a list of objects),   *)
(* arr the list of objects.                                                   *)
(* A usage object: the value of each key, -1 for a key that is missing.     *)
(* nested stands for completion_tokens_details.reasoning_tokens              *)
Usage(prompt, completion, total, nested, reasoning, thinking) ==
    [prompt_tokens |-> prompt, completion_tokens |-> completion, total_tokens |-> total,
     nested |-> nested, reasoning_tokens |-> reasoning, thinking_tokens |-> thinking]

(* usage = {} *)
EmptyUsage == Usage(-1, -1, -1, -1, -1, -1)

(* The usage object of a response unless said otherwise *)
PlainUsage == Usage(100, 20, 120, -1, -1, -1)

(* What requests.post did: kind is the class of the outcome, msg the text of  *)
(* the exception, the status or the message content, top/usage/content the   *)
(* classes of the body, its usage entry and its message content, arr the     *)
(* decoded array, tok the usage object, latency the seconds the call took    *)
Outcome(kind, msg, top, usage, content, arr) ==
    [kind |-> kind, msg |-> msg, top |-> top, usage |-> usage, content |-> content,
     arr |-> arr, tok |-> PlainUsage, latency |-> IF kind = "timeout" THEN 30 ELSE 1]

(* The same outcome with another usage object, with another latency *)
WithUsage(r, u) == [r EXCEPT !.tok = u]

WithLatency(r, seconds) == [r EXCEPT !.latency = seconds]

Failure(kind, msg) == Outcome(kind, msg, "", "", "", <<>>)

Body(top, usage, content, arr) == Outcome("json", "", top, usage, content, arr)

(* A 200 response whose message content is the string text *)
TextBody(text) == Outcome("json", text, "dict", "dict", "text", <<>>)

(* One object of the array the model returns *)
(* An object of the response array; error and model_name are the values of *)
(* keys of those names that the model put into the object, Absent when it  *)
(* did not                                                                  *)
Obj(qid, cr, fb) ==
    [questionid |-> qid, change_required |-> cr, feedback |-> fb,
     error |-> Absent, model_name |-> Absent]

(* The same object with a key "error" and a key "model_name" *)
WithKeys(obj, error, model_name) == [obj EXCEPT !.error = error, !.model_name = model_name]

(* error_msg returned by call_openrouter_api, None when a response_json is returned *)
api_error(r) ==
    CASE r.kind = "timeout" -> "Timeout after 30s"
      [] r.kind = "exception" -> r.msg
      [] r.kind = "http" -> "HTTP " \o r.msg
      [] r.kind = "empty" -> "Empty response from OpenRouter"
      [] r.kind = "nonjson" -> "Invalid JSON response"
      [] OTHER -> None

(* `response` of assess_question_batch is truthy *)
response_truthy(r) == r.kind = "json" /\ r.top # "falsy"

(* Lines 763-811 raise AttributeError: response or usage has no .get *)
usage_raises(r) == response_truthy(r) /\ (r.top # "dict" \/ r.usage = "null")

----------------------------------------------------------------------------
(* Response Parser *)

ParseFailed == "Failed to parse LLM batch response"

NotAnArray == "LLM response was not a JSON array."

(* parse_llm_batch_response raises AttributeError: content has no .strip *)
parse_raises(r) == response_truthy(r) /\ r.top = "dict" /\ r.content = "null"

(* str.endswith *)
EndsWith(s, p) == Len(s) >= Len(p) /\ SubSeq(s, Len(s) - Len(p) + 1, Len(s)) = p

(* s[a:b] of Python for 0 <= a, b <= len(s) *)
StrSlice(s, a, b) == IF b > a THEN SubSeq(s, a + 1, b) ELSE ""

(* str.find and str.rfind of a character: 0-based index, -1 when absent *)
Find(s, c) ==
    IF \E k \in 1..Len(s) : SubSeq(s, k, k) = c
    THEN (CHOOSE k \in 1..Len(s) :
              SubSeq(s, k, k) = c /\ \A j \in 1..(k - 1) : SubSeq(s, j, j) # c) - 1
    ELSE -1

RFind(s, c) ==
    IF \E k \in 1..Len(s) : SubSeq(s, k, k) = c
    THEN (CHOOSE k \in 1..Len(s) :
              SubSeq(s, k, k) = c /\ \A j \in (k + 1)..Len(s) : SubSeq(s, j, j) # c) - 1
    ELSE -1

(* The code-fence marker: three backquotes in the source, written with three *)
(* tildes here because a string of TLA+ cannot hold a backquote              *)
Fence == "~~~"

FenceJson == Fence \o "json"

(* Lines 679-687: strip, then drop a leading and a trailing code fence *)
strip_fences(content) ==
    LET c1 == Strip(content)
        c2 == IF StartsWith(c1, FenceJson) THEN Strip(StrSlice(c1, 7, Len(c1)))
              ELSE IF StartsWith(c1, Fence) THEN Strip(StrSlice(c1, 3, Len(c1)))
              ELSE c1
    IN  IF EndsWith(c2, Fence) THEN Strip(StrSlice(c2, 0, Len(c2) - 3)) ELSE c2

(* Lines 691-698: when the text does not start with '[', slice from the first *)
(* '[' to the last ']'                                                        *)
extract_array(content) ==
    IF ~StartsWith(content, "[") /\ Find(content, "[") # -1 /\ RFind(content, "]") # -1
    THEN StrSlice(content, Find(content, "["), RFind(content, "]") + 1)
    ELSE content

(* The text handed to json.loads *)
clean_content(content) == extract_array(strip_fences(content))

(* JSON text of the verdict object of item qid and of the array of such objects *)
VerdictText(qid) ==
    "{\"questionid\":\"" \o qid
        \o "\",\"change_required\":0,\"feedback\":{\"question\":{\"issue\":\"fix [a]\",\"rewrite\":\"r\"}}}"

RECURSIVE JoinVerdicts(_)
JoinVerdicts(ids) ==
    IF Len(ids) = 0 THEN ""
    ELSE IF Len(ids) = 1 THEN VerdictText(ids[1])
    ELSE VerdictText(ids[1]) \o "," \o JoinVerdicts(Tail(ids))

ArrayText(ids) == "[" \o JoinVerdicts(ids) \o "]"

(* json.loads: the documents it accepts here are the arrays of verdict objects *)
(* of the first n table rows and a few values that are no array, with blanks   *)
(* around them; every other text raises JSONDecodeError                        *)
JsonArrayLengths(text) == {n \in 0..MaxRows : Strip(text) = ArrayText([k \in 1..n |-> "q" \o ToString(k)])}

JsonOthers == {"{}", "null", "0"}

json_valid(text) == JsonArrayLengths(text) # {} \/ Strip(text) \in JsonOthers

json_is_list(text) == JsonArrayLengths(text) # {}

json_loads(text) ==
    LET n == CHOOSE n \in JsonArrayLengths(text) : TRUE
    IN  [k \in 1..n |-> Obj("q" \o ToString(k), "0", "ok")]

(* parsed_array: of a body whose message content is the text r.msg, or the    *)
(* array r.arr of a body whose content is given by its class                  *)
parsed_array(r) ==
    IF r.content = "text"
    THEN IF json_is_list(clean_content(r.msg)) THEN json_loads(clean_content(r.msg))
         ELSE <<>>
    ELSE r.arr

(* The error string parse_llm_batch_response returns, None on success *)
parse_error(r) ==
    IF ~response_truthy(r) THEN ParseFailed
    ELSE CASE r.content = "array" -> None
           [] r.content = "notarray" -> NotAnArray
           [] r.content = "text" ->
                 IF ~json_valid(clean_content(r.msg)) THEN ParseFailed
                 ELSE IF ~json_is_list(clean_content(r.msg)) THEN NotAnArray
                 ELSE None
           [] OTHER -> ParseFailed

(* results_map: the last object carrying each questionid *)
results_map(arr) ==
    LET ids == {arr[k].questionid : k \in DOMAIN arr} \ {Absent}
        last(q) == CHOOSE k \in DOMAIN arr :
                       /\ arr[k].questionid = q
                       /\ \A j \in DOMAIN arr : arr[j].questionid = q => j <= k
    IN  [q \in ids |-> arr[last(q)]]

----------------------------------------------------------------------------
(* Reconciler: the verdicts assess_question_batch stores for one model_key *)

(* usage.get(key, 0) *)
UsageGet(x) == IF x = -1 THEN 0 ELSE x

(* Line 763: response.get('usage', {}) if response else {} *)
usage_of(r) == IF response_truthy(r) /\ r.usage = "dict" THEN r.tok ELSE EmptyUsage

(* Variant: only completion_tokens_details.reasoning_tokens is read *)
tokens_of_nested_only(r) ==
    LET usage == usage_of(r)
    IN  [input |-> UsageGet(usage.prompt_tokens), output |-> UsageGet(usage.completion_tokens),
         reasoning |-> UsageGet(usage.nested), total |-> UsageGet(usage.total_tokens)]

(* Lines 776-808: the token counts of a call; reasoning is the nested count, *)
(* replaced when 0 by usage.reasoning_tokens, replaced when still 0 by       *)
(* usage.thinking_tokens                                                     *)
tokens_of(r) ==
    LET usage == usage_of(r)
        nested == UsageGet(usage.nested)
        top == IF nested = 0 THEN UsageGet(usage.reasoning_tokens) ELSE nested
        reasoning == IF top = 0 THEN UsageGet(usage.thinking_tokens) ELSE top
    IN  [input |-> UsageGet(usage.prompt_tokens), output |-> UsageGet(usage.completion_tokens),
         reasoning |-> reasoning, total |-> UsageGet(usage.total_tokens)]

model_batch_info(cfg, s, r) ==
    [model_key |-> SlotKeys[s], model_name |-> cfg[SlotKeys[s]], latency |-> r.latency,
     tokens |-> tokens_of(r)]

ErrorVerdict(error, info) ==
    [error |-> error, change_required |-> Absent, feedback |-> Absent,
     model_key |-> info.model_key, model_name |-> info.model_name,
     latency |-> info.latency, tokens |-> info.tokens]

(* Line 839: {'error': None, **result_for_qid, **model_batch_info}; a key of *)
(* the object replaces the None of error, a key of model_batch_info replaces *)
(* that of the object                                                        *)
NormalVerdict(obj, info) ==
    [error |-> IF obj.error = Absent THEN None ELSE obj.error, change_required |-> obj.change_required, feedback |-> obj.feedback,
     model_key |-> info.model_key, model_name |-> info.model_name,
     latency |-> info.latency, tokens |-> info.tokens]

MissingResponse == "Response missing for this questionid"

(* The verdict of item qid for outcome r of slot s (lines 820-841) *)
verdict_for(r, qid, info) ==
    IF Truthy(api_error(r)) THEN ErrorVerdict(api_error(r), info)
    ELSE IF Truthy(parse_error(r)) THEN ErrorVerdict(parse_error(r), info)
    ELSE IF qid \in DOMAIN results_map(parsed_array(r))
         THEN NormalVerdict(results_map(parsed_array(r))[qid], info)
         ELSE ErrorVerdict(MissingResponse, info)

(* batch_results.setdefault(qid, {})[model_key] = verdict, for every qid of the batch *)
store_verdicts(br, batch_ids, r, info) ==
    [q \in (DOMAIN br) \cup Range(batch_ids) |->
        IF q \in Range(batch_ids)
        THEN (info.model_key :> verdict_for(r, q, info))
                 @@ (IF q \in DOMAIN br THEN br[q] ELSE <<>>)
        ELSE br[q]]

----------------------------------------------------------------------------
(* Batch Orchestrator: helpers of assess_questions *)

QID(k) == "q" \o ToString(k)

(* df_all['questionid']: the table rows, in order *)
df_all(n) == [k \in 1..n |-> QID(k)]

(* seq[a:b] of Python, for any integers a and b *)
PySlice(seq, a, b) ==
    LET norm(x) == IF x < 0 THEN Max(x + Len(seq), 0) ELSE Min(x, Len(seq))
    IN  SubSeq(seq, norm(a) + 1, norm(b))

(* Step 4: df_all.iloc[start_idx:end_idx] *)
select_rows(all, start_row, end_row) ==
    LET start_idx == IF start_row - 2 < 0 THEN 0 ELSE start_row - 2
        end_idx == IF end_row = <<>> THEN Len(all)
                   ELSE IF end_row[1] - 1 > Len(all) THEN Len(all) ELSE end_row[1] - 1
    IN  PySlice(all, start_idx, end_idx)

(* Variant: the division rounds down, a trailing partial batch is dropped *)
count_batches_floor(n, batch_size) == n \div batch_size

(* total_batches = (len(df_to_process) + batch_size - 1) // batch_size *)
count_batches(n, batch_size) == (n + batch_size - 1) \div batch_size

(* batch_df of loop index k (0-based): df_to_process.iloc[k*size : k*size + size] *)
batch_df(items, k, batch_size) == PySlice(items, k * batch_size, k * batch_size + batch_size)

(* The enabled slots in loop order *)
RECURSIVE enabled_from(_, _)
enabled_from(cfg, s) ==
    IF s > Len(SlotKeys) THEN <<>>
    ELSE (IF Enabled(cfg, s) THEN <<s>> ELSE <<>>) \o enabled_from(cfg, s + 1)

enabled_seq(cfg) == enabled_from(cfg, 1)

(* The (item, slot) pairs in the order lines 1270-1298 visit them *)
result_pairs(ids, cfg) ==
    LET es == enabled_seq(cfg)
    IN  [t \in 1..(Len(ids) * Len(es)) |->
            [qid |-> ids[((t - 1) \div Len(es)) + 1], s |-> es[((t - 1) % Len(es)) + 1]]]

(* assessment_for_question.get(model_key, {}) *)
model_result(br, qid, mk) ==
    IF qid \in DOMAIN br /\ mk \in DOMAIN br[qid] THEN br[qid][mk]
    ELSE [error |-> Absent, change_required |-> Absent, feedback |-> Absent,
          model_key |-> Absent, model_name |-> Absent, latency |-> 0,
          tokens |-> [input |-> 0, output |-> 0, reasoning |-> 0, total |-> 0]]

(* feedback.get(...) raises AttributeError: 'feedback' is present but is no dict *)
row_raises(v) == v.feedback = "notmap"

GetOrNone(x) == IF x = Absent THEN None ELSE x

(* feedback values that are a map with a 'question' entry: "ok" has a text  *)
(* in issue and in rewrite, "empty" has '' in both                           *)
has_question(fb) == fb \in {"ok", "empty"}

(* feedback['question']['issue'] and feedback['question']['rewrite'] *)
question_issue(fb) == IF fb = "ok" THEN "issue" ELSE ""

question_rewrite(fb) == IF fb = "ok" THEN "rewrite" ELSE ""

(* The four rows appended for one (item, slot) pair: Original, Rewrite, Issues, {} *)
result_rows(v, qid, cfg, s) ==
    LET display == get_short_model_name(cfg[SlotKeys[s]])
        cr == GetOrNone(v.change_required)
        row(item, question) ==
            [Model |-> display, questionid |-> qid, Item |-> item,
             ChangeRequired |-> cr, Question |-> question]
    IN  << row("Original", "original " \o qid),
           row("Rewrite", IF has_question(v.feedback) THEN question_rewrite(v.feedback)
                          ELSE ""),
           row("Issues", IF has_question(v.feedback) THEN question_issue(v.feedback)
                         ELSE IF v.error = Absent THEN "" ELSE v.error),
           [Model |-> "", questionid |-> "", Item |-> "", ChangeRequired |-> None,
            Question |-> ""] >>

(* Rows of the first n pairs *)
RECURSIVE rows_upto(_, _, _, _)
rows_upto(br, pairs, cfg, n) ==
    IF n = 0 THEN <<>>
    ELSE rows_upto(br, pairs, cfg, n - 1)
             \o result_rows(model_result(br, pairs[n].qid, SlotKeys[pairs[n].s]),
                            pairs[n].qid, cfg, pairs[n].s)

(* Index of the first pair whose rows raise, 0 when none does *)
first_raising(br, pairs) ==
    LET bad == {t \in DOMAIN pairs :
                    row_raises(model_result(br, pairs[t].qid, SlotKeys[pairs[t].s]))}
    IN  IF bad = {} THEN 0 ELSE CHOOSE t \in bad : \A u \in bad : t <= u

(* Variant: every record is marked SUCCESS *)
metrics_record_success(br, ids, batch_num, s) ==
    LET first == model_result(br, ids[1], SlotKeys[s])
    IN  [Question_ID |-> "Batch_" \o ToString(batch_num),
         Model_Name |-> first.model_name, Model_Key |-> SlotKeys[s],
         Status |-> "SUCCESS",
         Input_Tokens |-> first.tokens.input, Output_Tokens |-> first.tokens.output,
         Reasoning_Tokens |-> first.tokens.reasoning, Total_Tokens |-> first.tokens.total,
         Latency_Seconds |-> first.latency,
         Error_Message |-> IF Truthy(first.error) THEN first.error ELSE ""]

(* The API_METRICS record of one enabled slot of a batch (lines 1304-1320) *)
metrics_record(br, ids, batch_num, s) ==
    LET first == model_result(br, ids[1], SlotKeys[s])
    IN  [Question_ID |-> "Batch_" \o ToString(batch_num),
         Model_Name |-> first.model_name, Model_Key |-> SlotKeys[s],
         Status |-> IF first.error = None THEN "SUCCESS" ELSE "ERROR",
         Input_Tokens |-> first.tokens.input, Output_Tokens |-> first.tokens.output,
         Reasoning_Tokens |-> first.tokens.reasoning, Total_Tokens |-> first.tokens.total,
         Latency_Seconds |-> first.latency,
         Error_Message |-> IF Truthy(first.error) THEN first.error ELSE ""]

(* Records of all enabled slots that have a verdict for the first item *)
RECURSIVE metrics_from(_, _, _, _, _)
metrics_from(br, ids, batch_num, cfg, s) ==
    IF s > Len(SlotKeys) THEN <<>>
    ELSE (IF Enabled(cfg, s) /\ ids[1] \in DOMAIN br /\ SlotKeys[s] \in DOMAIN br[ids[1]]
          THEN <<metrics_record(br, ids, batch_num, s)>> ELSE <<>>)
         \o metrics_from(br, ids, batch_num, cfg, s + 1)

(* dict.update *)
dict_update(d, e) == [q \in (DOMAIN d) \cup (DOMAIN e) |-> IF q \in DOMAIN e THEN e[q] ELSE d[q]]

----------------------------------------------------------------------------
(* Metrics aggregator: build_and_write_dashboard *)

(* Lines 129-141: int(seconds // 3600), int((seconds % 3600) // 60) and     *)
(* int(seconds % 60), each printed with at least two digits                 *)
format_time_hms(seconds) ==
    LET whole == seconds.num \div seconds.den
        two(n) == IF n < 10 THEN "0" \o ToString(n) ELSE ToString(n)
    IN  IF seconds.num = 0 THEN "00h 00m 00s"
        ELSE two(whole \div 3600) \o "h " \o two((whole % 3600) \div 60) \o "m "
                 \o two(whole % 60) \o "s"

(* Series.sum() of a column of integers *)
RECURSIVE Sum(_)
Sum(vals) == IF vals = <<>> THEN 0 ELSE vals[1] + Sum(Tail(vals))

(* Line 914: metrics_df['Model_Key'].unique(), in order of first appearance *)
active_models(metrics_data) ==
    LET first == {k \in DOMAIN metrics_data :
                     \A j \in 1..(k - 1) : metrics_data[j].Model_Key # metrics_data[k].Model_Key}
    IN  [n \in 1..Cardinality(first) |->
            metrics_data[CHOOSE k \in first : Cardinality({j \in first : j < k}) = n - 1].Model_Key]

(* Variant: reasoning tokens are not billed *)
total_cost_unbilled_reasoning(input_tokens, output_tokens, reasoning_tokens, model_costs) ==
    FracAdd(FracMul(Frac(input_tokens, 1000000), model_costs.INPUT),
            FracMul(Frac(output_tokens, 1000000), model_costs.OUTPUT))

(* Lines 933-936: input_cost + output_cost + reasoning_cost *)
total_cost(input_tokens, output_tokens, reasoning_tokens, model_costs) ==
    FracAdd(FracAdd(FracMul(Frac(input_tokens, 1000000), model_costs.INPUT),
                    FracMul(Frac(output_tokens, 1000000), model_costs.OUTPUT)),
            FracMul(Frac(reasoning_tokens, 1000000), model_costs.OUTPUT))

(* The keys of a dashboard row (lines 953-979), and those whose column has  *)
(* dtype int64 and float64; the others hold the text of format_time_hms     *)
Columns ==
    {"Model", "Total API Calls", "Successful API Calls", "Total Items", "Successful Items",
     "Failed Items", "Changes Recommended", "Change Rate (%)", "Total Time",
     "Time per Question", "Time per API Call", "Total Input Tokens", "Total Output Tokens",
     "Total Reasoning Tokens", "Total Tokens", "System Prompt Tokens (Est.)",
     "Total System Prompt Tokens (Est.)", "Prompt Share of Input (%)", "Input Cost",
     "Output Cost", "Reasoning Cost", "Total Cost", "Cost per 1K Questions (USD)",
     "Cost per 100K Questions (USD)", "Total Time per 100K Questions"}

IntColumns ==
    {"Total API Calls", "Successful API Calls", "Changes Recommended", "Total Input Tokens",
     "Total Output Tokens", "Total Reasoning Tokens", "Total Tokens",
     "System Prompt Tokens (Est.)", "Total System Prompt Tokens (Est.)"}

FloatColumns ==
    {"Total Items", "Successful Items", "Failed Items", "Change Rate (%)",
     "Prompt Share of Input (%)", "Input Cost", "Output Cost", "Reasoning Cost", "Total Cost",
     "Cost per 1K Questions (USD)", "Cost per 100K Questions (USD)"}

(* Lines 918-979: the row of one active model key *)
dashboard_row(cfg, metrics_data, results_rows, model_key) ==
    LET display_model_name == get_short_model_name(cfg[model_key])
        chars == Len(cfg.system_prompt)
        (* round(len / 4), halves to the even neighbour *)
        system_prompt_tokens ==
            IF chars % 4 < 2 THEN chars \div 4
            ELSE IF chars % 4 > 2 THEN chars \div 4 + 1
            ELSE IF (chars \div 4) % 2 = 0 THEN chars \div 4 ELSE chars \div 4 + 1
        model_metrics == SelectSeq(metrics_data, LAMBDA m : m.Model_Key = model_key)
        model_results == SelectSeq(results_rows, LAMBDA r : r.Model = display_model_name)
        total_api_calls == Len(model_metrics)
        total_input_tokens == Sum([k \in DOMAIN model_metrics |-> model_metrics[k].Input_Tokens])
        total_output_tokens == Sum([k \in DOMAIN model_metrics |-> model_metrics[k].Output_Tokens])
        total_reasoning_tokens ==
            Sum([k \in DOMAIN model_metrics |-> model_metrics[k].Reasoning_Tokens])
        total_prompt_tokens == system_prompt_tokens * total_api_calls
        model_costs == IF cfg[model_key] \in DOMAIN T_COST THEN T_COST[cfg[model_key]]
                       ELSE [INPUT |-> Frac(0, 1), OUTPUT |-> Frac(0, 1)]
        cost == total_cost(total_input_tokens, total_output_tokens, total_reasoning_tokens,
                           model_costs)
        notna == Cardinality({k \in DOMAIN model_results : model_results[k].ChangeRequired # None})
        ones == Cardinality({k \in DOMAIN model_results : model_results[k].ChangeRequired = "1"})
        successful_items == Frac(notna, 3)
        changes_recommended == Frac(ones, 3)
        total_time_seconds ==
            Frac(Sum([k \in DOMAIN model_metrics |-> model_metrics[k].Latency_Seconds]), 1)
        total_questions_processed == total_api_calls * cfg.batch_size
        per_question(x) == IF total_questions_processed > 0
                           THEN FracMul(x, Frac(1, total_questions_processed)) ELSE Frac(0, 1)
    IN  [c \in Columns |->
            CASE c = "Model" -> display_model_name
              [] c = "Total API Calls" -> total_api_calls
              [] c = "Successful API Calls" ->
                     Len(SelectSeq(model_metrics, LAMBDA m : m.Status = "SUCCESS"))
              [] c = "Total Items" -> Frac(Len(model_results), 3)
              [] c = "Successful Items" -> successful_items
              [] c = "Failed Items" ->
                     FracAdd(Frac(Len(model_results), 3), Frac(-notna, 3))
              [] c = "Changes Recommended" -> ones \div 3
              [] c = "Change Rate (%)" ->
                     IF notna > 0 THEN Frac(ones, notna) ELSE Frac(0, 1)
              [] c = "Total Time" -> format_time_hms(total_time_seconds)
              [] c = "Time per Question" -> format_time_hms(per_question(total_time_seconds))
              [] c = "Time per API Call" ->
                     format_time_hms(IF total_api_calls > 0
                                     THEN FracMul(total_time_seconds, Frac(1, total_api_calls))
                                     ELSE Frac(0, 1))
              [] c = "Total Input Tokens" -> total_input_tokens
              [] c = "Total Output Tokens" -> total_output_tokens
              [] c = "Total Reasoning Tokens" -> total_reasoning_tokens
              [] c = "Total Tokens" ->
                     total_input_tokens + total_output_tokens + total_reasoning_tokens
              [] c = "System Prompt Tokens (Est.)" -> system_prompt_tokens
              [] c = "Total System Prompt Tokens (Est.)" -> total_prompt_tokens
              [] c = "Prompt Share of Input (%)" ->
                     IF total_input_tokens > 0 THEN Frac(total_prompt_tokens, total_input_tokens)
                     ELSE Frac(0, 1)
              [] c = "Input Cost" -> FracMul(Frac(total_input_tokens, 1000000), model_costs.INPUT)
              [] c = "Output Cost" ->
                     FracMul(Frac(total_output_tokens, 1000000), model_costs.OUTPUT)
              [] c = "Reasoning Cost" ->
                     FracMul(Frac(total_reasoning_tokens, 1000000), model_costs.OUTPUT)
              [] c = "Total Cost" -> cost
              [] c = "Cost per 1K Questions (USD)" -> FracMul(per_question(cost), Frac(1000, 1))
              [] c = "Cost per 100K Questions (USD)" ->
                     FracMul(per_question(cost), Frac(100000, 1))
              [] c = "Total Time per 100K Questions" ->
                     format_time_hms(FracMul(per_question(total_time_seconds), Frac(100000, 1)))]

(* Series.sum() of a column of floats *)
RECURSIVE FracSum(_)
FracSum(vals) == IF vals = <<>> THEN Frac(0, 1) ELSE FracAdd(vals[1], FracSum(Tail(vals)))

(* Variant: a column of texts is represented by its last value *)
total_row_last(rows) ==
    [c \in Columns |->
        IF c = "Model" THEN "Total"
        ELSE IF c \in IntColumns THEN Sum([k \in DOMAIN rows |-> rows[k][c]])
        ELSE IF c \in FloatColumns THEN FracSum([k \in DOMAIN rows |-> rows[k][c]])
        ELSE rows[Len(rows)][c]]

(* Lines 986-996: the Total row; a column of dtype int64 or float64 is      *)
(* summed, any other column gives its first value                           *)
total_row(rows) ==
    [c \in Columns |->
        IF c = "Model" THEN "Total"
        ELSE IF c \in IntColumns THEN Sum([k \in DOMAIN rows |-> rows[k][c]])
        ELSE IF c \in FloatColumns THEN FracSum([k \in DOMAIN rows |-> rows[k][c]])
        ELSE rows[1][c]]

(* Lines 903-998: the metric rows of the dashboard, one per active model key *)
(* and the Total row last; nothing when there is no metrics record           *)
build_and_write_dashboard(cfg, metrics_data, results_rows) ==
    IF metrics_data = <<>> THEN <<>>
    ELSE LET keys == active_models(metrics_data)
             dashboard_data ==
                 [n \in DOMAIN keys |-> dashboard_row(cfg, metrics_data, results_rows, keys[n])]
         IN  dashboard_data \o <<total_row(dashboard_data)>>

----------------------------------------------------------------------------
(* Log of the effects on the outside world *)

(* A request posted for (batch, slot): the thinking parameters of its payload, *)
(* the class of its outcome, the error_msg call_openrouter_api returned, the   *)
(* error parse_llm_batch_response returned (Absent when it was not called or   *)
(* did not return) and the results_map it built                                *)
RequestEvent(batch_num, mk, payload, r) ==
    LET parser_returns == ~Truthy(api_error(r)) /\ ~usage_raises(r) /\ ~parse_raises(r)
    IN  [ev |-> "request", batch |-> batch_num, model_key |-> mk, model |-> payload.model,
         outcome |-> r.kind, error |-> api_error(r),
         parse_error |-> IF parser_returns THEN parse_error(r) ELSE Absent,
         returned |-> IF parser_returns /\ parse_error(r) = None
                      THEN results_map(parsed_array(r)) ELSE <<>>,
         content |-> IF r.content = "text" THEN r.msg ELSE "",
         usage |-> usage_of(r), latency |-> r.latency,
         thinking_budget |-> payload.thinking_budget,
         reasoning_effort |-> payload.reasoning_effort]

(* Variant: the pause is also taken after the last batch *)
pauses_always(cfg, batch_num, total) == cfg.request_delay_seconds > 0

(* Line 1322: request_delay_seconds > 0 and (i+1) < total_batches *)
pauses(cfg, batch_num, total) == cfg.request_delay_seconds > 0 /\ batch_num < total

(* time.sleep after a batch *)
SleepEvent(batch_num) ==
    [ev |-> "sleep", batch |-> batch_num, model_key |-> "", model |-> "",
     outcome |-> "", error |-> None, parse_error |-> Absent, returned |-> <<>>,
     content |-> "", usage |-> EmptyUsage, latency |-> 0,
     thinking_budget |-> <<>>, reasoning_effort |-> ""]

----------------------------------------------------------------------------
(* Actions *)

(* assess_questions, Steps 1-5: load_config's start_row check, row range,   *)
(* accumulators, total_batches                                               *)
StartRun ==
    /\ pc = "start"
    /\ config' = [config EXCEPT !.start_row = IF @ < 2 THEN 2 ELSE @]
    /\ df_to_process' = select_rows(df_all(nrows), config'.start_row, config.end_row)
    /\ total_batches' = count_batches(Len(df_to_process'), config.batch_size)
    /\ i' = 0
    /\ slot' = 1
    /\ pc' = IF total_batches' > 0 THEN "batch" ELSE "write"
    /\ UNCHANGED manual_test_json
    /\ UNCHANGED <<nrows, batch_results, all_batch_results, results_data,
                   api_metrics_data, log, fatal, written>>

(* assess_question_batch: `continue` for a slot whose tag is not 1 *)
SkipSlot ==
    /\ pc = "batch"
    /\ slot <= Len(SlotKeys)
    /\ ~Enabled(config, slot)
    /\ slot' = slot + 1
    /\ UNCHANGED manual_test_json
    /\ UNCHANGED <<config, nrows, pc, df_to_process, total_batches, i, batch_results,
                   all_batch_results, results_data, api_metrics_data, log, fatal, written>>

(* The model_key loop is at a slot whose tag is 1 *)
AtEnabledSlot == pc = "batch" /\ slot <= Len(SlotKeys) /\ Enabled(config, slot)

(* The exception that ends the run once outcome r has been received, or None *)
call_raises(r) ==
    IF Truthy(api_error(r)) THEN None
    ELSE IF usage_raises(r) THEN "AttributeError: object has no attribute 'get'"
    ELSE IF parse_raises(r) THEN "AttributeError: 'NoneType' object has no attribute 'strip'"
    ELSE None

(* Variant: a call that ended in a gateway error is made again *)
CallSlot_retry(r) ==
    /\ AtEnabledSlot
    /\ LET payload == build_payload(config[SlotKeys[slot]], config)
           ids == batch_df(df_to_process, i, config.batch_size)
           info == model_batch_info(config, slot, r)
       IN  IF payload.error # None
           THEN /\ pc' = "aborted"
                /\ fatal' = payload.error
                /\ UNCHANGED <<slot, batch_results, log>>
           ELSE /\ log' = Append(log, RequestEvent(i + 1, SlotKeys[slot], payload, r))
                /\ IF call_raises(r) # None
                   THEN /\ pc' = "aborted"
                        /\ fatal' = call_raises(r)
                        /\ UNCHANGED <<slot, batch_results>>
                   ELSE /\ batch_results' = store_verdicts(batch_results, ids, r, info)
                        /\ slot' = IF Truthy(api_error(r)) THEN slot ELSE slot + 1
                        /\ UNCHANGED <<pc, fatal>>
    /\ UNCHANGED manual_test_json
    /\ UNCHANGED <<config, nrows, df_to_process, total_batches, i, all_batch_results,
                   results_data, api_metrics_data, written>>

(* assess_question_batch: one iteration of the model_key loop for an enabled *)
(* slot, with outcome r of requests.post                                      *)
CallSlot(r) ==
    /\ AtEnabledSlot
    /\ LET payload == build_payload(config[SlotKeys[slot]], config)
           ids == batch_df(df_to_process, i, config.batch_size)
           info == model_batch_info(config, slot, r)
       IN  IF payload.error # None
           THEN /\ pc' = "aborted"
                /\ fatal' = payload.error
                /\ UNCHANGED <<slot, batch_results, log>>
           ELSE /\ log' = Append(log, RequestEvent(i + 1, SlotKeys[slot], payload, r))
                /\ IF call_raises(r) # None
                   THEN /\ pc' = "aborted"
                        /\ fatal' = call_raises(r)
                        /\ UNCHANGED <<slot, batch_results>>
                   ELSE /\ batch_results' = store_verdicts(batch_results, ids, r, info)
                        /\ slot' = slot + 1
                        /\ UNCHANGED <<pc, fatal>>
    /\ UNCHANGED manual_test_json
    /\ UNCHANGED <<config, nrows, df_to_process, total_batches, i, all_batch_results,
                   results_data, api_metrics_data, written>>

(* assess_questions, lines 1264-1324: merge the batch that was just assessed, *)
(* append its rows and metrics, pause, go to the next batch                   *)
FinishBatch ==
    /\ pc = "batch"
    /\ slot > Len(SlotKeys)
    /\ LET ids == batch_df(df_to_process, i, config.batch_size)
           pairs == result_pairs(ids, config)
           bad == first_raising(batch_results, pairs)
       IN  /\ all_batch_results' = dict_update(all_batch_results, batch_results)
           /\ IF bad # 0
              THEN /\ results_data' =
                          results_data \o rows_upto(batch_results, pairs, config, bad - 1)
                   /\ pc' = "aborted"
                   /\ fatal' = "AttributeError: object has no attribute 'get'"
                   /\ UNCHANGED <<api_metrics_data, log, i, slot, batch_results>>
              ELSE /\ results_data' =
                          results_data \o rows_upto(batch_results, pairs, config, Len(pairs))
                   /\ api_metrics_data' =
                          api_metrics_data \o metrics_from(batch_results, ids, i + 1, config, 1)
                   /\ log' = IF pauses(config, i + 1, total_batches)
                             THEN Append(log, SleepEvent(i + 1)) ELSE log
                   /\ i' = i + 1
                   /\ slot' = 1
                   /\ batch_results' = <<>>
                   /\ pc' = IF i + 1 < total_batches THEN "batch" ELSE "write"
                   /\ UNCHANGED fatal
    /\ UNCHANGED manual_test_json
    /\ UNCHANGED <<config, nrows, df_to_process, total_batches, written>>

(* assess_questions, Steps 7-8: write the result tables and build the dashboard *)
WriteResults ==
    /\ pc = "write"
    /\ written' = [results |-> results_data, metrics |-> api_metrics_data,
                   dashboard |-> api_metrics_data # <<>>,
                   summary |-> build_and_write_dashboard(config, api_metrics_data,
                                                         results_data)]
    /\ pc' = "done"
    /\ UNCHANGED manual_test_json
    /\ UNCHANGED <<config, nrows, df_to_process, total_batches, i, slot, batch_results,
                   all_batch_results, results_data, api_metrics_data, log, fatal>>

(* Lines 637-668: the JSON array built from a batch, one object per row, in *)
(* row order, keyed by the row's questionid                                  *)
prepare_question_batch_payload(batch) == [k \in DOMAIN batch |-> [questionid |-> batch[k]]]

(* Lines 1500-1506: the rows get_manual_test_payload serializes *)
first_batch_df(all, start_row, end_row, batch_size) ==
    LET end == IF end_row = <<>> \/ end_row[1] = 0 THEN Len(all) + 1 ELSE end_row[1]
        batch_end_row == Min(start_row + batch_size - 1, end)
    IN  PySlice(all, start_row - 2, batch_end_row - 1)

(* The script get_manual_test_payload, run on the workbook of the run: it    *)
(* reads the configuration through load_config (START_ROW below 2 becomes 2) *)
get_manual_test_payload ==
    /\ ~manual_test_json.exists
    /\ manual_test_json' =
           [exists |-> TRUE,
            A1 |-> prepare_question_batch_payload(
                       first_batch_df(df_all(nrows), Max(config.start_row, 2),
                                      config.end_row, config.batch_size))]
    /\ UNCHANGED <<config, nrows, pc, df_to_process, total_batches, i, slot, batch_results,
                   all_batch_results, results_data, api_metrics_data, log, fatal, written>>

----------------------------------------------------------------------------
(* Configurations and initial states *)

Cfg(m1, m2, m3, t1, t2, t3, size, effort, budget) ==
    [model_1 |-> m1, model_2 |-> m2, model_3 |-> m3,
     model_1_tag |-> t1, model_2_tag |-> t2, model_3_tag |-> t3,
     batch_size |-> size, start_row |-> 2, end_row |-> <<>>,
     request_delay_seconds |-> 0, system_prompt |-> "You assess quiz questions.",
     thinking_budget_gemini |-> budget, reasoning_effort_openai |-> effort]

NothingWritten == [results |-> <<>>, metrics |-> <<>>, dashboard |-> FALSE, summary |-> <<>>]

InitWith(cfgs, rows) ==
    /\ config \in cfgs
    /\ nrows \in rows
    /\ pc = "start"
    /\ df_to_process = <<>>
    /\ total_batches = 0
    /\ i = 0
    /\ slot = 1
    /\ batch_results = <<>>
    /\ all_batch_results = <<>>
    /\ results_data = <<>>
    /\ api_metrics_data = <<>>
    /\ log = <<>>
    /\ fatal = None
    /\ written = NothingWritten
    /\ manual_test_json = [exists |-> FALSE, A1 |-> <<>>]

Claude == "anthropic/claude-3-5-haiku-20241022"

Gpt5 == "openai/gpt-5"

GeminiFlash == "google/gemini-2.5-flash"

(* Slot bindings: the effort-family model in each slot position *)
Bindings == {<<Claude, Gpt5, GeminiFlash>>, <<Gpt5, Claude, GeminiFlash>>,
             <<Claude, GeminiFlash, Gpt5>>}

Tags == {0, 1}

----------------------------------------------------------------------------
(* Spec: the whole run over several batches, with one outcome of each class *)

(* A legal reasoning effort with the default binding order, an illegal one *)
(* with every binding                                                      *)
RunConfigs ==
    {Cfg(Claude, Gpt5, GeminiFlash, t1, t2, t3, size, "low", <<>>) :
        t1 \in Tags, t2 \in Tags, t3 \in Tags, size \in 1..MaxBatchSize}
    \cup
    {Cfg(b[1], b[2], b[3], t1, t2, t3, size, "bogus", <<>>) :
        b \in Bindings, t1 \in Tags, t2 \in Tags, t3 \in Tags, size \in 1..MaxBatchSize}

AllPresent(ids) == [k \in DOMAIN ids |-> Obj(ids[k], "0", "ok")]

RunOutcomes(ids) ==
    { Failure("timeout", ""),
      Body("dict", "dict", "notjson", <<>>), Body("dict", "dict", "null", <<>>),
      Body("dict", "dict", "array", AllPresent(ids)) }

CurrentBatch == batch_df(df_to_process, i, config.batch_size)

Init == InitWith(RunConfigs, 0..MaxRows)

CallGateway == AtEnabledSlot /\ \E r \in RunOutcomes(CurrentBatch) : CallSlot(r)

Next == StartRun \/ SkipSlot \/ CallGateway \/ FinishBatch \/ WriteResults

Spec == Init /\ [][Next]_vars

----------------------------------------------------------------------------
(* SpecBatch: one batch, every class of gateway outcome, and response arrays *)
(* that omit, repeat or invent questionids                                   *)

Gpt4oMini == "openai/gpt-4o-mini"

BatchConfigs ==
    {Cfg(Claude, Gpt4oMini, GeminiFlash, t1, t2, t3, MaxRows, "", <<>>) :
        t1 \in Tags, t2 \in Tags, t3 \in Tags}

ForeignId == "qx"

(* An object for every questionid of the batch, for one that is not in the  *)
(* batch and without questionid, and a second, different object for the     *)
(* first item                                                               *)
ReturnedObjects(ids) ==
    {Obj(q, "0", "ok") : q \in Range(ids) \cup {ForeignId, Absent}}
    \cup {Obj(ids[1], "1", "ok")}

SeqsUpTo(S, n) == UNION {[1..k -> S] : k \in 0..n}

BatchOutcomes(ids) ==
    { Failure("timeout", ""), Failure("exception", "Connection aborted"),
      Failure("exception", ""), Failure("http", "500"), Failure("empty", ""),
      Failure("nonjson", ""),
      Body("falsy", "missing", "missing", <<>>), Body("other", "missing", "missing", <<>>),
      Body("dict", "null", "array", AllPresent(ids)),
      Body("dict", "missing", "missing", <<>>), Body("dict", "dict", "null", <<>>),
      Body("dict", "dict", "notjson", <<>>), Body("dict", "dict", "notarray", <<>>),
      Body("dict", "dict", "badelem", <<>>) }
    \cup
    { Body("dict", "dict", "array", arr) : arr \in SeqsUpTo(ReturnedObjects(ids), Len(ids)) }

InitBatch == InitWith(BatchConfigs, 1..MaxRows)

CallGatewayBatch == AtEnabledSlot /\ \E r \in BatchOutcomes(CurrentBatch) : CallSlot(r)

NextBatch == StartRun \/ SkipSlot \/ CallGatewayBatch \/ FinishBatch \/ WriteResults

SpecBatch == InitBatch /\ [][NextBatch]_vars

----------------------------------------------------------------------------
(* SpecShape: one batch, one enabled slot, response arrays whose objects have *)
(* every shape                                                                *)

ShapeConfigs ==
    {Cfg(Claude, Gpt4oMini, GeminiFlash, t[1], t[2], t[3], MaxRows, "", <<>>) :
        t \in {<<1, 0, 0>>, <<0, 1, 0>>, <<0, 0, 1>>}}

(* change_required: 0, 1, another value, key missing; feedback: a map with a *)
(* question entry, such a map with empty issue and rewrite, key missing, not *)
(* a map, a map without question entry                                       *)
Shapes == {"0", "1", "2", Absent} \X {"ok", "empty", Absent, "notmap", "noquestion"}

ShapeOutcomes(ids) ==
    { Failure("timeout", "") }
    \cup
    { Body("dict", "dict", "array", [k \in DOMAIN ids |-> Obj(ids[k], f[k][1], f[k][2])]) :
        f \in [DOMAIN ids -> Shapes] }

InitShape == InitWith(ShapeConfigs, 1..MaxRows)

CallGatewayShape == AtEnabledSlot /\ \E r \in ShapeOutcomes(CurrentBatch) : CallSlot(r)

NextShape == StartRun \/ SkipSlot \/ CallGatewayShape \/ FinishBatch \/ WriteResults

SpecShape == InitShape /\ [][NextShape]_vars

----------------------------------------------------------------------------
(* SpecParse: one batch, one enabled slot, responses whose message content is *)
(* a text: the verdict array of the batch between two stretches of prose,     *)
(* bare or inside one pair of code fences, and texts that hold no array       *)

Prose == {"", " ", "Sure. ", " Done"}

FencePairs == {<<"", "">>, <<FenceJson \o " ", " " \o Fence>>, <<Fence, Fence>>}

ArrayAmidProse(ids, pres, sufs) ==
    {f[1] \o pre \o ArrayText(ids) \o suf \o f[2] :
        pre \in pres, suf \in sufs, f \in FencePairs}

OtherTexts == {"", "I cannot answer", "{}", "[", "]["}

ParseOutcomes(ids) ==
    { Failure("timeout", "") }
    \cup { TextBody(t) : t \in ArrayAmidProse(ids, Prose, Prose) \cup OtherTexts }

InitParse == InitWith(ShapeConfigs, 1..MaxRows)

CallGatewayParse == AtEnabledSlot /\ \E r \in ParseOutcomes(CurrentBatch) : CallSlot(r)

NextParse == StartRun \/ SkipSlot \/ CallGatewayParse \/ FinishBatch \/ WriteResults

SpecParse == InitParse /\ [][NextParse]_vars

----------------------------------------------------------------------------
(* SpecReq: one item, slot model_1 bound to every model of T_COST and to one *)
(* that T_COST does not list, every budget and effort                        *)

Budgets ==
    {<<>>} \cup {<<b>> : b \in {-1, 0, 1, 127, 128, 129, 511, 512, 513, 1000,
                                24576, 24577, 32768, 32769}}

Efforts == {"", "  ", "minimal", "low", "bogus"}

ReqConfigs ==
    {Cfg(m, Claude, Claude, 1, 0, 0, 1, effort, budget) :
        m \in (DOMAIN T_COST) \cup {"mistralai/mistral-small"},
        effort \in Efforts, budget \in Budgets}

InitReq == InitWith(ReqConfigs, {1})

SpecReq == InitReq /\ [][Next]_vars

----------------------------------------------------------------------------
(* SpecPlan: longer tables, slot model_1 alone enabled or no slot enabled *)

MaxPlanRows == 5

MaxPlanBatchSize == 3

PlanConfigs ==
    {Cfg(Claude, Gpt5, GeminiFlash, t1, 0, 0, size, "", <<>>) :
        t1 \in Tags, size \in 1..MaxPlanBatchSize}

InitPlan == InitWith(PlanConfigs, 0..MaxPlanRows)

SpecPlan == InitPlan /\ [][Next]_vars

----------------------------------------------------------------------------
(* SpecRange: every START_ROW and END_ROW around a short table, slot model_1 *)
(* enabled or no slot enabled                                                *)

MaxRangeRows == 3

StartRows == -1..(MaxRangeRows + 2)

EndRows == {<<>>} \cup {<<e>> : e \in -2..(MaxRangeRows + 2)}

RangeConfigs ==
    {[Cfg(Claude, Gpt5, GeminiFlash, t1, 0, 0, MaxBatchSize, effort, <<>>)
          EXCEPT !.start_row = a, !.end_row = b] :
        t1 \in Tags, effort \in {"", "bogus"}, a \in StartRows, b \in EndRows}

InitRange == InitWith(RangeConfigs, 0..MaxRangeRows)

SpecRange == InitRange /\ [][Next]_vars

----------------------------------------------------------------------------
(* SpecDelay: the tables and batch sizes of SpecPlan with a negative, a zero *)
(* and a positive REQUEST_DELAY                                              *)

Delays == {-1, 0, 2}

DelayConfigs ==
    {[c EXCEPT !.request_delay_seconds = d] : c \in PlanConfigs, d \in Delays}

InitDelay == InitWith(DelayConfigs, 0..MaxPlanRows)

SpecDelay == InitDelay /\ [][Next]_vars

----------------------------------------------------------------------------
(* SpecUsage: one item, one or two enabled slots, and a response whose usage *)
(* object carries each of the three reasoning counts absent, zero or         *)
(* positive; also a call that got no response, a body without usage, and     *)
(* arrays whose objects carry keys named as the fields of a verdict          *)

UsageConfigs ==
    {Cfg(Claude, Gpt5, GeminiFlash, 1, t2, 0, 1, "low", <<>>) : t2 \in Tags}

ReasoningCounts == {
    Usage(100, 20, 120, n, r, t) : n \in {-1, 0, 11}, r \in {-1, 0, 22}, t \in {-1, 0, 33}}

(* Values of a key "error" and of a key "model_name" in the model's object: *)
(* no such key, JSON null, a string                                         *)
ExtraErrors == {Absent, None, "not sure"}

ExtraNames == {Absent, "some/model"}

UsageOutcomes(ids) ==
    { Failure("timeout", ""), Body("dict", "missing", "array", AllPresent(ids)) }
    \cup {WithUsage(Body("dict", "dict", "array", AllPresent(ids)), u) : u \in ReasoningCounts}
    \cup {WithUsage(Body("dict", "dict", "notjson", <<>>), u) : u \in ReasoningCounts}
    \cup {Body("dict", "dict", "array", [k \in DOMAIN ids |-> WithKeys(AllPresent(ids)[k], x, n)]) :
              x \in ExtraErrors, n \in ExtraNames}

InitUsage == InitWith(UsageConfigs, {1})

CallGatewayUsage == AtEnabledSlot /\ \E r \in UsageOutcomes(CurrentBatch) : CallSlot(r)

NextUsage == StartRun \/ SkipSlot \/ CallGatewayUsage \/ FinishBatch \/ WriteResults

SpecUsage == InitUsage /\ [][NextUsage]_vars

----------------------------------------------------------------------------
(* SpecManual: the configurations and tables of SpecRange, with the script  *)
(* get_manual_test_payload run at any moment before, during or after the    *)
(* assessment                                                               *)

NextManual == Next \/ get_manual_test_payload

SpecManual == InitRange /\ [][NextManual]_vars

----------------------------------------------------------------------------
(* SpecDash: runs that end with the dashboard: one enabled slot bound to a  *)
(* priced or to an unpriced model with every batch size, or two enabled     *)
(* slots bound to the same model, to models with the same short name or to  *)
(* different models; calls that time out, that use a million input tokens,  *)
(* that flag every item, that answer for the first item only, and that      *)
(* leave change_required out                                                *)

Unlisted == "acme/unlisted-model"

OtherGpt5 == "vendor/gpt-5"

DashConfigs ==
    {Cfg(m, Gpt4oMini, GeminiFlash, 1, 0, 0, size, "low", <<>>) :
        m \in {Gpt5, Unlisted}, size \in 1..MaxBatchSize}
    \cup
    {Cfg(Gpt5, m, GeminiFlash, 1, 1, 0, MaxBatchSize, "low", <<>>) :
        m \in {Gpt5, OtherGpt5, Claude}}

(* Token counts are round numbers, so that every quotient of the dashboard *)
(* stays within the integers TLC computes with                             *)
SmallUsage == Usage(1000, 1000, 2000, -1, -1, -1)

DashOutcomes(ids) ==
    { Failure("timeout", ""),
      WithLatency(WithUsage(Body("dict", "dict", "array", AllPresent(ids)),
                            Usage(1000000, 500000, 1500000, -1, -1, -1)), 2),
      WithUsage(Body("dict", "dict", "array", [k \in DOMAIN ids |-> Obj(ids[k], "1", "ok")]),
                Usage(1000, 1000, 3000, 1000, -1, -1)),
      WithUsage(Body("dict", "dict", "array", <<Obj(ids[1], "1", "ok")>>), SmallUsage),
      WithLatency(WithUsage(Body("dict", "dict", "array",
                                 [k \in DOMAIN ids |-> Obj(ids[k], Absent, "ok")]),
                            SmallUsage), 3) }

InitDash == InitWith(DashConfigs, 0..MaxRangeRows)

CallGatewayDash == AtEnabledSlot /\ \E r \in DashOutcomes(CurrentBatch) : CallSlot(r)

NextDash == StartRun \/ SkipSlot \/ CallGatewayDash \/ FinishBatch \/ WriteResults

SpecDash == InitDash /\ [][NextDash]_vars

----------------------------------------------------------------------------
(* Vocabulary of the properties *)

Finished == pc \in {"done", "aborted"}

ConfigErrors ==
    {"Model does not support the 'reasoning_effort' parameter", "Invalid reasoning_effort"}

(* The verdicts recorded so far: the merged batches and the batch in progress *)
RunVerdicts == dict_update(all_batch_results, batch_results)

HasVerdict(q, mk) == q \in DOMAIN RunVerdicts /\ mk \in DOMAIN RunVerdicts[q]

SlotOf(mk) == CHOOSE s \in Slots : SlotKeys[s] = mk

Requests == {k \in DOMAIN log : log[k].ev = "request"}

(* The ids of batch number b (1-based) *)
BatchIds(b) == Range(batch_df(df_to_process, b - 1, config.batch_size))

(* Result rows of kind item written for questionid q under a display name *)
RowsOf(q, display, item) ==
    {k \in DOMAIN results_data :
        /\ results_data[k].questionid = q
        /\ results_data[k].Model = display
        /\ results_data[k].Item = item}

----------------------------------------------------------------------------
(* C1: when assess_questions has finished (here: without a configuration     *)
(* error, which the run is allowed to die of), every selected item has, for  *)
(* every enabled slot, exactly one verdict in the aggregated results and     *)
(* exactly one group of result rows.                                         *)
C1_OneVerdictPerItemAndSlot ==
    (Finished /\ fatal \notin ConfigErrors) =>
        \A q \in Range(df_to_process) : \A s \in EnabledSlots(config) :
            /\ q \in DOMAIN all_batch_results
            /\ SlotKeys[s] \in DOMAIN all_batch_results[q]
            /\ Cardinality(RowsOf(q, get_short_model_name(config[SlotKeys[s]]), "Issues")) = 1

----------------------------------------------------------------------------
(* C3: once the run has finished, every request that ended in a timeout is   *)
(* followed by a request for every later enabled slot of its batch and for   *)
(* every enabled slot of every later batch.                                  *)
LaterPairs(b, s) ==
    {p \in (1..total_batches) \X EnabledSlots(config) :
        p[1] > b \/ (p[1] = b /\ p[2] > s)}

----------------------------------------------------------------------------
(* C4: a run that raised the reasoning-effort configuration error has sent   *)
(* no network request.                                                       *)
C4_ConfigErrorBeforeAnyRequest == fatal \in ConfigErrors => Requests = {}

----------------------------------------------------------------------------
(* C2: the batches of a selection of n items with batch size b >= 1 are      *)
(* consecutive slices of it: there are ceil(n/b) of them, their sizes sum to *)
(* n, all but the last have b items, laid end to end they are the selection  *)
(* (no item twice, original order); and a run that reaches the end of the    *)
(* loop has produced its rows in that order.                                 *)
CeilDiv(n, b) == CHOOSE k \in 0..n : k * b >= n /\ (k = 0 \/ (k - 1) * b < n)

PlannedBatches ==
    [k \in 1..total_batches |-> batch_df(df_to_process, k - 1, config.batch_size)]

RECURSIVE Flatten(_)
Flatten(ss) == IF ss = <<>> THEN <<>> ELSE Head(ss) \o Flatten(Tail(ss))

IsOriginalRow(row) == row.Item = "Original"

ProcessedItems ==
    LET rows == SelectSeq(results_data, IsOriginalRow)
    IN  [k \in DOMAIN rows |-> rows[k].questionid]

C2_BatchesPartitionSelection ==
    pc # "start" =>
        LET n == Len(df_to_process)
            b == config.batch_size
        IN  /\ total_batches = CeilDiv(n, b)
            /\ Len(Flatten(PlannedBatches)) = n
            /\ \A k \in 1..(total_batches - 1) : Len(PlannedBatches[k]) = b
            /\ \A k \in 1..total_batches : Len(PlannedBatches[k]) \in 1..b
            /\ Flatten(PlannedBatches) = df_to_process
            /\ (pc \in {"write", "done"} /\ Enabled(config, 1))
                   => ProcessedItems = df_to_process

(* A finished run of several batches whose last batch is a partial one *)
C2_Witness ==
    /\ pc = "done"
    /\ Enabled(config, 1)
    /\ total_batches >= 2
    /\ Len(PlannedBatches[total_batches]) < config.batch_size
    /\ ProcessedItems = df_to_process

----------------------------------------------------------------------------
(* Vocabulary of the properties about one call *)

(* Request k was answered and parse_llm_batch_response returned without error *)
Parsed(k) == log[k].parse_error = None

(* The verdict recorded for item q by the call of request k *)
VerdictOf(k, q) == RunVerdicts[q][log[k].model_key]

(* The call of request k left a verdict for every item of its batch *)
Recorded(k) == \A q \in BatchIds(log[k].batch) : HasVerdict(q, log[k].model_key)

(* The API_METRICS records of the (batch, slot) pair of request k *)
MetricsOf(k) ==
    {m \in DOMAIN api_metrics_data :
        /\ api_metrics_data[m].Question_ID = "Batch_" \o ToString(log[k].batch)
        /\ api_metrics_data[m].Model_Key = log[k].model_key}

(* The rows and metrics of request k's batch have been appended *)
BatchAppended(k) == pc \in {"write", "done"} \/ (pc = "batch" /\ i >= log[k].batch)

----------------------------------------------------------------------------
(* C5: for every call whose response parsed successfully, exactly the items  *)
(* of the batch that the response omits carry the verdict 'Response missing  *)
(* for this questionid', every other item carries a normal verdict, and the  *)
(* metrics record of that (batch, slot) pair, once appended, has Status      *)
(* SUCCESS, wherever the omitted items stand in the batch.                   *)
C5_OmittedItemsAndSuccessStatus ==
    \A k \in Requests : Parsed(k) =>
        /\ Recorded(k)
        /\ \A q \in BatchIds(log[k].batch) :
               IF q \in DOMAIN log[k].returned
               THEN VerdictOf(k, q).error = None
               ELSE VerdictOf(k, q).error = MissingResponse
        /\ BatchAppended(k) =>
               /\ Cardinality(MetricsOf(k)) = 1
               /\ \A m \in MetricsOf(k) : api_metrics_data[m].Status = "SUCCESS"

(* The part of C5 about the verdicts alone *)
C5_Verdicts ==
    \A k \in Requests : Parsed(k) =>
        /\ Recorded(k)
        /\ \A q \in BatchIds(log[k].batch) :
               IF q \in DOMAIN log[k].returned
               THEN VerdictOf(k, q).error = None
               ELSE VerdictOf(k, q).error = MissingResponse

----------------------------------------------------------------------------
(* C6: a request answered with status 200 (a JSON body of any content, an    *)
(* empty body, a body that is not JSON) never ends the run: its call leaves  *)
(* a verdict for every item of the batch, an error verdict unless the        *)
(* response parsed, and the run is not aborted.                              *)
SuccessStatus == {"json", "empty", "nonjson"}

C6_SuccessStatusNeverAborts ==
    \A k \in Requests : log[k].outcome \in SuccessStatus =>
        /\ pc # "aborted"
        /\ Recorded(k)
        /\ ~Parsed(k) => \A q \in BatchIds(log[k].batch) : VerdictOf(k, q).error # None

----------------------------------------------------------------------------
(* C7: when some object of a parsed response array fails shape validation,   *)
(* every item of the batch carries an error verdict for that slot.           *)
ValidShape(obj) == obj.change_required \in {"0", "1"} /\ obj.feedback \in {"ok", "empty"}

C7_InvalidShapeFailsWholeCall ==
    \A k \in Requests :
        (Parsed(k) /\ \E q \in DOMAIN log[k].returned : ~ValidShape(log[k].returned[q])) =>
            /\ Recorded(k)
            /\ \A q \in BatchIds(log[k].batch) : VerdictOf(k, q).error # None

----------------------------------------------------------------------------
(* C8: when call_openrouter_api returned an error message, or the parser     *)
(* returned one, every item of the batch carries for that slot an error      *)
(* verdict with that same message.                                           *)
ErrorOf(k) ==
    IF log[k].error # None THEN log[k].error
    ELSE IF log[k].parse_error \notin {None, Absent} THEN log[k].parse_error
    ELSE None

C8_ErrorVerdictCarriesTheError ==
    \A k \in Requests : ErrorOf(k) # None =>
        /\ Recorded(k)
        /\ \A q \in BatchIds(log[k].batch) : VerdictOf(k, q).error = ErrorOf(k)

----------------------------------------------------------------------------
(* C9: every call of assess_question_batch returns, and the map it returns   *)
(* has the ids of the batch as its keys and, under each key, one entry per   *)
(* enabled slot and none for a disabled slot.                                *)
EnabledKeys == {SlotKeys[s] : s \in EnabledSlots(config)}

C9_BatchMapKeyedByBatchIds ==
    /\ \A k \in Requests : Recorded(k)
    /\ (pc = "batch" /\ slot > Len(SlotKeys)) =>
           /\ DOMAIN batch_results = BatchIds(i + 1)
           /\ \A q \in DOMAIN batch_results : DOMAIN batch_results[q] = EnabledKeys

(* The part of C9 that holds whenever assess_question_batch returns with     *)
(* some slot enabled                                                         *)
C9_WhenReturned ==
    (pc = "batch" /\ slot > Len(SlotKeys) /\ EnabledKeys # {}) =>
        /\ DOMAIN batch_results = BatchIds(i + 1)
        /\ \A q \in DOMAIN batch_results : DOMAIN batch_results[q] = EnabledKeys

----------------------------------------------------------------------------
(* Vocabulary of the properties about thinking_budget *)

(* The budget-family models with extended reasoning, and the pro variant *)
BudgetModels == {"google/gemini-2.5-flash", "google/Gemini-2.5-Pro"}

ProModels == {"google/Gemini-2.5-Pro"}

MinBudget(m) == IF m \in ProModels THEN 128 ELSE 512

MaxBudget(m) == IF m \in ProModels THEN 32768 ELSE 24576

(* C10 as stated: for a budget-family model with extended reasoning every    *)
(* request carries thinking_budget = the minimum when the configured budget  *)
(* is below it, the maximum when it is above it, the configured budget       *)
(* otherwise; a blank budget sends no thinking_budget.                       *)
C10_BudgetClampedIntoRange ==
    \A k \in Requests : log[k].model \in BudgetModels =>
        IF config.thinking_budget_gemini = <<>> THEN log[k].thinking_budget = <<>>
        ELSE LET b == config.thinking_budget_gemini[1]
                 m == log[k].model
             IN  log[k].thinking_budget =
                     << IF b < MinBudget(m) THEN MinBudget(m)
                        ELSE IF b > MaxBudget(m) THEN MaxBudget(m) ELSE b >>

(* C10 amended: a positive budget is clamped into [minimum, maximum]; a zero *)
(* or blank budget sends no thinking_budget; a negative budget is sent as it *)
(* is.                                                                       *)
C10_PositiveBudgetClamped ==
    \A k \in Requests : log[k].model \in BudgetModels =>
        IF config.thinking_budget_gemini = <<>> THEN log[k].thinking_budget = <<>>
        ELSE LET b == config.thinking_budget_gemini[1]
                 m == log[k].model
             IN  log[k].thinking_budget =
                     IF b = 0 THEN <<>>
                     ELSE IF b < 0 THEN <<b>>
                     ELSE IF b < MinBudget(m) THEN <<MinBudget(m)>>
                     ELSE IF b > MaxBudget(m) THEN <<MaxBudget(m)>>
                     ELSE <<b>>

(* A request of the pro variant whose configured budget 127 was raised to 128 *)
C10_Witness ==
    \E k \in Requests :
        /\ log[k].model \in ProModels
        /\ config.thinking_budget_gemini = <<127>>
        /\ log[k].thinking_budget = <<128>>

----------------------------------------------------------------------------
(* Vocabulary of the properties about reasoning_effort *)

(* The effort-family models with extended reasoning and their legal values *)
EffortModels == {"openai/gpt-5", "openai/gpt-5-mini"}

LegalEfforts(m) ==
    IF m = "openai/gpt-5" THEN {"minimal", "low", "medium", "high"} ELSE {}

BlankEffort(e) == e \in {None, "", "  "}

(* The models bound to enabled slots *)
EnabledModels == {config[SlotKeys[s]] : s \in EnabledSlots(config)}

(* C11: a request for an effort-family model with extended reasoning carries *)
(* reasoning_effort exactly when the configured value is non-blank; the      *)
(* value sent is the configured one and is legal for that model; a blank     *)
(* value raises no configuration error, and a legal value is sent once the   *)
(* run has finished.                                                         *)
C11_EffortSentWhenConfigured ==
    LET e == config.reasoning_effort_openai
    IN  /\ \A k \in Requests : log[k].model \in EffortModels =>
               IF BlankEffort(e) THEN log[k].reasoning_effort = ""
               ELSE log[k].reasoning_effort = e /\ e \in LegalEfforts(log[k].model)
        /\ BlankEffort(e) => fatal \notin ConfigErrors
        /\ (Finished /\ df_to_process # <<>>) =>
               \A m \in EnabledModels \cap EffortModels :
                   (BlankEffort(e) \/ e \in LegalEfforts(m)) =>
                       \E k \in Requests : log[k].model = m

(* A finished run whose gpt-5 request carried the configured effort "minimal" *)
C11_Witness ==
    /\ Finished
    /\ config.reasoning_effort_openai = "minimal"
    /\ \E k \in Requests :
           log[k].model = "openai/gpt-5" /\ log[k].reasoning_effort = "minimal"

----------------------------------------------------------------------------
(* The models T_COST does not mark as supporting extended reasoning *)
PlainModels ==
    {"anthropic/claude-3-5-haiku-20241022", "openai/gpt-4o-mini",
     "google/gemini-2.0-flash-lite", "mistralai/mistral-small"}

(* C12: a request for a model without extended reasoning carries neither     *)
(* thinking_budget nor reasoning_effort, whatever budget and effort are      *)
(* configured; when only such models are enabled no configuration error is   *)
(* raised and the request is sent.                                           *)
C12_PlainModelSendsNoParameter ==
    /\ \A k \in Requests : log[k].model \in PlainModels =>
           log[k].thinking_budget = <<>> /\ log[k].reasoning_effort = ""
    /\ EnabledModels \subseteq PlainModels =>
           /\ fatal \notin ConfigErrors
           /\ (Finished /\ df_to_process # <<>>) =>
                  \A m \in EnabledModels : \E k \in Requests : log[k].model = m

(* A request for gpt-4o-mini sent while an illegal effort and a budget are   *)
(* configured                                                                *)
C12_Witness ==
    /\ config.reasoning_effort_openai = "bogus"
    /\ config.thinking_budget_gemini = <<1000>>
    /\ \E k \in Requests :
           /\ log[k].model = "openai/gpt-4o-mini"
           /\ log[k].thinking_budget = <<>>
           /\ log[k].reasoning_effort = ""

----------------------------------------------------------------------------
(* C13: when a parsed response holds, for an item of the batch, a feedback   *)
(* whose question entry has an empty issue and an empty rewrite, the Issues  *)
(* row written for that item reads 'No changes needed.' and its Rewrite row  *)
(* is empty.                                                                 *)
NoChangesNeeded == "No changes needed."

C13_EmptyFeedbackNormalized ==
    \A k \in Requests : Parsed(k) =>
        \A q \in BatchIds(log[k].batch) \cap DOMAIN log[k].returned :
            (log[k].returned[q].feedback = "empty" /\ BatchAppended(k)) =>
                LET display == get_short_model_name(log[k].model)
                IN  /\ \A r \in RowsOf(q, display, "Issues") :
                           results_data[r].Question = NoChangesNeeded
                    /\ \A r \in RowsOf(q, display, "Rewrite") :
                           results_data[r].Question = ""

----------------------------------------------------------------------------
(* Vocabulary of the properties about the message content *)

(* The ids of batch number b in table order *)
BatchSeq(b) == batch_df(df_to_process, b - 1, config.batch_size)

(* The verdict map of the array ArrayText writes *)
VerdictMap(ids) == [q \in Range(ids) |-> Obj(q, "0", "ok")]

(* C14: when the message content is prose without brackets, the verdict      *)
(* array of the batch, prose without brackets (bare or inside one pair of    *)
(* code fences), the parser returns the verdict map of the array and no      *)
(* error.                                                                    *)
C14_ArrayAmidProseParsed ==
    \A k \in Requests :
        log[k].content \in ArrayAmidProse(BatchSeq(log[k].batch), Prose, Prose) =>
            /\ log[k].parse_error = None
            /\ log[k].returned = VerdictMap(BatchSeq(log[k].batch))

(* The part of C14 that holds: the prose before the array is not blank, or   *)
(* the prose after it is blank                                               *)
C14_LeadingProseOrNoTrailingProse ==
    \A k \in Requests :
        log[k].content \in ArrayAmidProse(BatchSeq(log[k].batch), {"Sure. "}, Prose)
                               \cup ArrayAmidProse(BatchSeq(log[k].batch), Prose, {"", " "}) =>
            /\ log[k].parse_error = None
            /\ log[k].returned = VerdictMap(BatchSeq(log[k].batch))

----------------------------------------------------------------------------
(* Vocabulary of the properties about the sequence of calls *)

(* The requests posted for batch b and the slot of model_key mk *)
RequestsFor(b, mk) == {k \in Requests : log[k].batch = b /\ log[k].model_key = mk}

(* Position of a model_key in the configured slot order *)
SlotIndex(mk) == CASE mk = "model_1" -> 1 [] mk = "model_2" -> 2 [] mk = "model_3" -> 3

EnabledTags == {mk \in {"model_1", "model_2", "model_3"} : config[mk \o "_tag"] = 1}

(* C15: no (batch, slot) pair is ever requested twice, no disabled slot is   *)
(* requested, and in a run that completed every (batch, enabled slot) pair   *)
(* was requested exactly once, so that the number of requests is the number  *)
(* of batches times the number of enabled slots.                             *)
C15_OneCallPerBatchAndSlot ==
    /\ \A k \in Requests :
           /\ Cardinality(RequestsFor(log[k].batch, log[k].model_key)) = 1
           /\ log[k].model_key \in EnabledTags
    /\ pc = "done" =>
           LET nb == CeilDiv(Len(df_to_process), config.batch_size)
           IN  /\ \A b \in 1..nb : \A mk \in EnabledTags :
                      Cardinality(RequestsFor(b, mk)) = 1
               /\ Cardinality(Requests) = nb * Cardinality(EnabledTags)

(* A completed run of two batches and two enabled slots in which a call      *)
(* timed out: four requests                                                  *)
C15_Witness ==
    /\ pc = "done"
    /\ Cardinality(EnabledTags) = 2
    /\ CeilDiv(Len(df_to_process), config.batch_size) = 2
    /\ Cardinality(Requests) = 4
    /\ \E k \in Requests : log[k].outcome = "timeout"

----------------------------------------------------------------------------
(* C16: the requests are posted in lexicographic order of (batch, slot):     *)
(* of two requests the earlier one belongs to an earlier batch, or to the    *)
(* same batch and an earlier slot. Each call is a blocking requests.post,    *)
(* one step here, so no two calls overlap.                                   *)
C16_CallsInBatchThenSlotOrder ==
    \A j \in Requests : \A k \in Requests :
        j < k =>
            \/ log[j].batch < log[k].batch
            \/ /\ log[j].batch = log[k].batch
               /\ SlotIndex(log[j].model_key) < SlotIndex(log[k].model_key)

(* A completed run that called three slots in each of two batches *)
C16_Witness ==
    /\ pc = "done"
    /\ Cardinality(Requests) = 6
    /\ \E j \in Requests : \E k \in Requests :
           /\ j < k
           /\ log[j].batch = 1 /\ log[j].model_key = "model_3"
           /\ log[k].batch = 2 /\ log[k].model_key = "model_1"

----------------------------------------------------------------------------
(* Vocabulary of the properties about the row range *)

(* The sheet rows of the table (row 1 is the header, row r holds item r - 1) *)
(* that lie between max(START_ROW, 2) and END_ROW, no upper limit when       *)
(* END_ROW is unset                                                          *)
RowsInRange ==
    {r \in 2..(nrows + 1) :
        /\ r >= Max(config.start_row, 2)
        /\ config.end_row = <<>> \/ r <= config.end_row[1]}

(* df_to_process holds exactly the items of the rows S, in table order *)
SelectsRows(S) ==
    /\ Len(df_to_process) = Cardinality(S)
    /\ \A k \in DOMAIN df_to_process :
           \E r \in S : /\ df_to_process[k] = "q" \o ToString(r - 1)
                        /\ Cardinality({x \in S : x < r}) = k - 1

(* C17: once the range has been applied, the selected items are exactly the  *)
(* rows r of the table with max(start_row, 2) <= r <= end_row, in table      *)
(* order; all rows from the start row when end_row is unset; none when       *)
(* end_row is smaller than the start row.                                    *)
C17_SelectedRowsAreTheRange == pc # "start" => SelectsRows(RowsInRange)

(* The part of C17 that holds: END_ROW unset or at least 1 *)
C17_WhenEndRowPositive ==
    (pc # "start" /\ (config.end_row = <<>> \/ config.end_row[1] >= 1)) =>
        SelectsRows(RowsInRange)

----------------------------------------------------------------------------
(* C18: when the run has been aborted after at least one batch was merged,   *)
(* the result rows and metrics records accumulated so far have been written  *)
(* to the result tables and the dashboard has been built.                    *)
C18_AbortStillWritesResults ==
    (pc = "aborted" /\ i >= 1) =>
        /\ written.results = results_data
        /\ written.metrics = api_metrics_data
        /\ written.dashboard

----------------------------------------------------------------------------
(* C19: when no slot is enabled, no request is ever posted, no verdict, row  *)
(* or metrics record is accumulated, and the run is not aborted, whatever    *)
(* the item range and the configured effort.                                 *)
C19_AllSlotsDisabledEmptyRun ==
    EnabledTags = {} =>
        /\ Requests = {}
        /\ batch_results = <<>> /\ all_batch_results = <<>>
        /\ results_data = <<>> /\ api_metrics_data = <<>>
        /\ pc # "aborted" /\ fatal = None
        /\ pc = "done" => written = NothingWritten

(* A completed run over two batches with every slot disabled and an illegal  *)
(* effort configured                                                         *)
C19_Witness ==
    /\ pc = "done"
    /\ EnabledTags = {}
    /\ total_batches = 2
    /\ config.reasoning_effort_openai = "bogus"

----------------------------------------------------------------------------
(* Vocabulary of the properties about the metrics collection *)

(* The API_METRICS records of batch b and model_key mk *)
MetricsFor(b, mk) ==
    {m \in DOMAIN api_metrics_data :
        /\ api_metrics_data[m].Question_ID = "Batch_" \o ToString(b)
        /\ api_metrics_data[m].Model_Key = mk}

(* call_openrouter_api returned no response for request k *)
NoResponse(k) == log[k].outcome # "json"

(* C20: after a completed run the metrics collection holds exactly one       *)
(* record for every (batch, enabled slot) pair and no other record; the      *)
(* record of a pair for which the gateway or the parser reported an error    *)
(* has Status ERROR, and the record of a pair for which no response was      *)
(* received has token counts 0.                                              *)
C20_OneMetricsRecordPerCall ==
    pc = "done" =>
        LET nb == CeilDiv(Len(df_to_process), config.batch_size)
        IN  /\ \A b \in 1..nb : \A mk \in EnabledTags : Cardinality(MetricsFor(b, mk)) = 1
            /\ Len(api_metrics_data) = nb * Cardinality(EnabledTags)
            /\ \A k \in Requests : \A m \in MetricsFor(log[k].batch, log[k].model_key) :
                   /\ ErrorOf(k) # None => api_metrics_data[m].Status = "ERROR"
                   /\ NoResponse(k) =>
                          /\ api_metrics_data[m].Input_Tokens = 0
                          /\ api_metrics_data[m].Output_Tokens = 0
                          /\ api_metrics_data[m].Reasoning_Tokens = 0
                          /\ api_metrics_data[m].Total_Tokens = 0

(* A completed run of two batches and two enabled slots whose metrics hold a *)
(* record of a timed-out call with Status ERROR and one of a successful call *)
(* with its token counts                                                     *)
C20_Witness ==
    /\ pc = "done"
    /\ Len(api_metrics_data) = 4
    /\ \E k \in Requests : \E m \in MetricsFor(log[k].batch, log[k].model_key) :
           log[k].outcome = "timeout" /\ api_metrics_data[m].Status = "ERROR"
    /\ \E m \in DOMAIN api_metrics_data :
           api_metrics_data[m].Status = "SUCCESS" /\ api_metrics_data[m].Total_Tokens > 0

----------------------------------------------------------------------------
(* Vocabulary of the properties about the pause between batches *)

Sleeps == {k \in DOMAIN log : log[k].ev = "sleep"}

SleepsAfter(b) == {k \in Sleeps : log[k].batch = b}

----------------------------------------------------------------------------
(* C28: the reasoning-token count recorded for a call, in the verdicts of   *)
(* its batch and in its metrics record, is the first non-zero value among   *)
(* completion_tokens_details.reasoning_tokens, usage.reasoning_tokens and   *)
(* usage.thinking_tokens, in that order, and 0 when all three are absent or *)
(* zero or when the call produced no response                               *)

FirstNonZero(vals) ==
    LET nz == {k \in DOMAIN vals : vals[k] > 0}
    IN  IF nz = {} THEN 0 ELSE vals[CHOOSE k \in nz : \A j \in nz : k <= j]

ExpectedReasoning(k) ==
    IF NoResponse(k) THEN 0
    ELSE FirstNonZero(<<log[k].usage.nested, log[k].usage.reasoning_tokens,
                        log[k].usage.thinking_tokens>>)

C28_ReasoningIsFirstNonZero ==
    \A k \in Requests :
        /\ Recorded(k) =>
               \A q \in BatchIds(log[k].batch) :
                   VerdictOf(k, q).tokens.reasoning = ExpectedReasoning(k)
        /\ \A m \in MetricsOf(k) :
               api_metrics_data[m].Reasoning_Tokens = ExpectedReasoning(k)

C28_Witness ==
    \E k \in Requests :
        /\ log[k].usage.nested = 0 /\ log[k].usage.reasoning_tokens = 0
        /\ log[k].usage.thinking_tokens = 33
        /\ Recorded(k)
        /\ \E m \in MetricsOf(k) : api_metrics_data[m].Reasoning_Tokens = 33

----------------------------------------------------------------------------
(* C29: when the response of a call parsed, the verdict of every item of    *)
(* the batch that is present in the response has no error, and its model    *)
(* key, model name, latency and token counts are those of the call,         *)
(* whatever keys the model's object contains                                *)

C29_PresentItemVerdictIsNormal ==
    \A k \in Requests :
        (Parsed(k) /\ Recorded(k)) =>
            \A q \in BatchIds(log[k].batch) \cap DOMAIN log[k].returned :
                /\ VerdictOf(k, q).error = None
                /\ VerdictOf(k, q).model_key = log[k].model_key
                /\ VerdictOf(k, q).model_name = log[k].model
                /\ VerdictOf(k, q).latency = log[k].latency
                /\ VerdictOf(k, q).tokens.input = UsageGet(log[k].usage.prompt_tokens)
                /\ VerdictOf(k, q).tokens.output = UsageGet(log[k].usage.completion_tokens)
                /\ VerdictOf(k, q).tokens.total = UsageGet(log[k].usage.total_tokens)

(* The batch metadata alone: it is the call's whatever the object contains *)
C29_MetadataIsTheCalls ==
    \A k \in Requests :
        (Parsed(k) /\ Recorded(k)) =>
            \A q \in BatchIds(log[k].batch) \cap DOMAIN log[k].returned :
                /\ VerdictOf(k, q).model_key = log[k].model_key
                /\ VerdictOf(k, q).model_name = log[k].model
                /\ VerdictOf(k, q).latency = log[k].latency

----------------------------------------------------------------------------
(* C26: for one configuration and item table, the batch serialized by       *)
(* get_manual_test_payload is the first batch that assess_questions sends,  *)
(* same items in the same order, for every start_row, end_row (set or       *)
(* unset) and batch size                                                    *)

FirstBatchSent == \E k \in Requests : log[k].batch = 1

C26_ManualPayloadIsFirstBatch ==
    (manual_test_json.exists /\ FirstBatchSent) =>
        manual_test_json.A1 = prepare_question_batch_payload(BatchSeq(1))

(* The same for an END_ROW that is unset or at least 1; then the script also *)
(* serializes no item when the run selects none                              *)
C26_WhenEndRowPositive ==
    (manual_test_json.exists /\ pc # "start" /\
     (config.end_row = <<>> \/ config.end_row[1] >= 1)) =>
        manual_test_json.A1 = prepare_question_batch_payload(batch_df(df_to_process, 0, config.batch_size))

----------------------------------------------------------------------------
(* Vocabulary of the run summary *)

(* The summary was written: it holds one row per active model key and the *)
(* Total row                                                              *)
SummaryWritten == pc = "done" /\ written.summary # <<>>

SummaryKeys == active_models(written.metrics)

(* The row of the n-th active model key *)
SlotRow(n) == written.summary[n]

TotalRow == written.summary[Len(written.summary)]

(* The verdicts of model key mk for the items of the run *)
SlotVerdicts(mk) ==
    {k \in DOMAIN df_to_process : HasVerdict(df_to_process[k], mk)}

VerdictAt(k, mk) == RunVerdicts[df_to_process[k]][mk]

NonErrorItems(mk) == {k \in SlotVerdicts(mk) : VerdictAt(k, mk).error = None}

FlaggedItems(mk) == {k \in SlotVerdicts(mk) : VerdictAt(k, mk).change_required = "1"}

Whole(n) == Frac(n, 1)

(* The metrics records of model key mk, and the sum of one of their fields *)
RecordsOf(mk) == SelectSeq(written.metrics, LAMBDA m : m.Model_Key = mk)

FieldSum(mk, field) == Sum([k \in DOMAIN RecordsOf(mk) |-> RecordsOf(mk)[k][field]])

----------------------------------------------------------------------------
(* C21: for each model slot, Successful Items is the number of items with a *)
(* non-error verdict for that slot, Successful Items + Failed Items is      *)
(* Total Items, Changes Recommended is the number of items whose verdict    *)
(* flag is 1, and Change Rate is Changes Recommended / Successful Items, or *)
(* 0 when Successful Items is 0                                             *)

ItemCountsRight(n) ==
    LET mk == SummaryKeys[n]
        successful == Cardinality(NonErrorItems(mk))
        changes == Cardinality(FlaggedItems(mk))
    IN  /\ SlotRow(n)["Successful Items"] = Whole(successful)
        /\ FracAdd(SlotRow(n)["Successful Items"], SlotRow(n)["Failed Items"])
               = SlotRow(n)["Total Items"]
        /\ SlotRow(n)["Changes Recommended"] = changes
        /\ SlotRow(n)["Change Rate (%)"] =
               IF successful = 0 THEN Whole(0) ELSE Frac(changes, successful)

C21_ItemCountsOfEachSlot ==
    SummaryWritten => \A n \in DOMAIN SummaryKeys : ItemCountsRight(n)

(* The same for runs in which every verdict without error carries a flag   *)
(* and no two enabled slots have the same short model name                 *)
DistinctShortNames ==
    \A a, b \in EnabledKeys :
        a # b => get_short_model_name(config[a]) # get_short_model_name(config[b])

C21_WhenFlaggedAndDistinct ==
    (SummaryWritten /\ DistinctShortNames /\
     \A mk \in EnabledKeys :
         \A k \in NonErrorItems(mk) : VerdictAt(k, mk).change_required # Absent)
        => \A n \in DOMAIN SummaryKeys : ItemCountsRight(n)

----------------------------------------------------------------------------
(* C22: for each model slot, Total Cost is (input tokens / 1,000,000) x    *)
(* input rate + (output tokens / 1,000,000) x output rate + (reasoning     *)
(* tokens / 1,000,000) x output rate over the token sums of the slot's     *)
(* metrics records; 1,000,000 input, 500,000 output and 0 reasoning tokens *)
(* at the rates 2.0 and 8.0 cost 6.0; a model that is not in the pricing   *)
(* table costs 0                                                           *)

PerMillion(tokens, rate) == FracMul(Frac(tokens, 1000000), rate)

Priced(mk) == config[mk] \in DOMAIN T_COST

InputRate(mk) == IF Priced(mk) THEN T_COST[config[mk]].INPUT ELSE Whole(0)

OutputRate(mk) == IF Priced(mk) THEN T_COST[config[mk]].OUTPUT ELSE Whole(0)

C22_TotalCostOfEachSlot ==
    SummaryWritten =>
        \A n \in DOMAIN SummaryKeys :
            LET mk == SummaryKeys[n]
                input == FieldSum(mk, "Input_Tokens")
                output == FieldSum(mk, "Output_Tokens")
                reasoning == FieldSum(mk, "Reasoning_Tokens")
            IN  /\ SlotRow(n)["Total Cost"] =
                       FracAdd(FracAdd(PerMillion(input, InputRate(mk)),
                                       PerMillion(output, OutputRate(mk))),
                               PerMillion(reasoning, OutputRate(mk)))
                /\ (/\ input = 1000000 /\ output = 500000 /\ reasoning = 0
                    /\ InputRate(mk) = Whole(2) /\ OutputRate(mk) = Whole(8))
                       => SlotRow(n)["Total Cost"] = Whole(6)
                /\ ~Priced(mk) => SlotRow(n)["Total Cost"] = Whole(0)

(* A slot priced 2.0 and 8.0 that used 1,000,000 input and 500,000 output  *)
(* tokens in one call and reasoning tokens in another                      *)
C22_Witness ==
    /\ SummaryWritten
    /\ \E n \in DOMAIN SummaryKeys :
           /\ InputRate(SummaryKeys[n]) = Whole(2) /\ OutputRate(SummaryKeys[n]) = Whole(8)
           /\ FieldSum(SummaryKeys[n], "Input_Tokens") = 1001000
           /\ FieldSum(SummaryKeys[n], "Reasoning_Tokens") = 1000
           /\ SlotRow(n)["Total Cost"] = Frac(6018, 1000)

(* The worked example itself *)
C22_Example ==
    /\ SummaryWritten
    /\ \E n \in DOMAIN SummaryKeys :
           /\ FieldSum(SummaryKeys[n], "Input_Tokens") = 1000000
           /\ FieldSum(SummaryKeys[n], "Output_Tokens") = 500000
           /\ SlotRow(n)["Total Cost"] = Whole(6)

----------------------------------------------------------------------------
(* C23: for each model slot, Cost per 1K Questions is 1,000 x total cost / *)
(* number of items processed for the slot, Cost per 100K Questions and     *)
(* Total Time per 100K Questions likewise with 100,000, for every item     *)
(* count and batch size, also when the last batch is smaller than the      *)
(* batch size; each is 0 when no item was processed                        *)

(* Items of the run that were sent in a call of model key mk *)
ItemsProcessed(mk) == Cardinality(SlotVerdicts(mk))

PerItem(x, items) == IF items = 0 THEN Whole(0) ELSE FracMul(x, Frac(1, items))

ProjectionsRight(n) ==
    LET mk == SummaryKeys[n]
        items == ItemsProcessed(mk)
        cost == SlotRow(n)["Total Cost"]
        latency == Whole(FieldSum(mk, "Latency_Seconds"))
    IN  /\ SlotRow(n)["Cost per 1K Questions (USD)"] = FracMul(PerItem(cost, items), Whole(1000))
        /\ SlotRow(n)["Cost per 100K Questions (USD)"] =
               FracMul(PerItem(cost, items), Whole(100000))
        /\ SlotRow(n)["Total Time per 100K Questions"] =
               format_time_hms(FracMul(PerItem(latency, items), Whole(100000)))

C23_ProjectionsPerProcessedItem ==
    SummaryWritten => \A n \in DOMAIN SummaryKeys : ProjectionsRight(n)

(* The same for runs whose item count is a multiple of the batch size *)
C23_WhenBatchesAreFull ==
    (SummaryWritten /\ Len(df_to_process) % config.batch_size = 0)
        => \A n \in DOMAIN SummaryKeys : ProjectionsRight(n)

----------------------------------------------------------------------------
(* C24: for each model slot, Time per Question is the total latency divided *)
(* by the number of successful items and Time per API Call is the total     *)
(* latency divided by the number of successful calls, each 0 when its       *)
(* divisor is 0                                                             *)

SuccessfulCalls(mk) ==
    Len(SelectSeq(RecordsOf(mk), LAMBDA m : m.Status = "SUCCESS"))

C24_AveragesOverSuccessfulCounts ==
    SummaryWritten =>
        \A n \in DOMAIN SummaryKeys :
            LET mk == SummaryKeys[n]
                latency == Whole(FieldSum(mk, "Latency_Seconds"))
            IN  /\ SlotRow(n)["Time per Question"] =
                       format_time_hms(PerItem(latency, Cardinality(NonErrorItems(mk))))
                /\ SlotRow(n)["Time per API Call"] =
                       format_time_hms(PerItem(latency, SuccessfulCalls(mk)))

(* What the rows hold: the total latency divided by calls x batch size and *)
(* by the number of calls, failed calls included                           *)
C24_AveragesOverAllCalls ==
    SummaryWritten =>
        \A n \in DOMAIN SummaryKeys :
            LET mk == SummaryKeys[n]
                latency == Whole(FieldSum(mk, "Latency_Seconds"))
                calls == Len(RecordsOf(mk))
            IN  /\ SlotRow(n)["Time per Question"] =
                       format_time_hms(PerItem(latency, calls * config.batch_size))
                /\ SlotRow(n)["Time per API Call"] = format_time_hms(PerItem(latency, calls))

(* The per-call average alone, in runs whose calls all succeeded *)
C24_PerCallWhenAllSucceed ==
    SummaryWritten =>
        \A n \in DOMAIN SummaryKeys :
            LET mk == SummaryKeys[n]
            IN  SuccessfulCalls(mk) = Len(RecordsOf(mk)) =>
                    SlotRow(n)["Time per API Call"] =
                        format_time_hms(PerItem(Whole(FieldSum(mk, "Latency_Seconds")),
                                                SuccessfulCalls(mk)))

----------------------------------------------------------------------------
(* C27: in the run summary the Total of every numeric metric is the sum of *)
(* that metric over the model-slot rows, and the Total of every            *)
(* non-numeric metric (the formatted durations) is the value of the first  *)
(* model-slot row; no formatted text is summed or concatenated             *)

Durations == {"Total Time", "Time per Question", "Time per API Call",
              "Total Time per 100K Questions"}

(* The rows of the model slots: all rows but the last *)
SlotRows == SubSeq(written.summary, 1, Len(written.summary) - 1)

----------------------------------------------------------------------------
(* C30: for each enabled slot the summary's Total Items is the number of   *)
(* items processed in the run, for every binding of slots to model         *)
(* identifiers, also when two enabled slots are bound to the same model    *)
(* identifier or to identifiers with the same short name after the last /  *)

C30_WhenShortNamesDistinct ==
    (SummaryWritten /\ DistinctShortNames) =>
        \A n \in DOMAIN SummaryKeys :
            /\ SummaryKeys[n] \in EnabledKeys
            /\ SlotRow(n)["Total Items"] = Whole(Len(df_to_process))

====
